---- MODULE Spec2Model ----
(***************************************************************************)
(* State-machine models of the election, heartbeat, logical-clock and      *)
(* replication code of the repository:                                     *)
(*   - nagoba/Q1_Banking_System/main.py   (Server, bully_election,         *)
(*     heartbeat_sender, heartbeat_monitor, TransactionManager)            *)
(*   - Q1/banking_system.py               (BankingServer)                  *)
(*   - anigay/Q4/distributed_logging.py   (DistributedServer)              *)
(*   - nagoba/Q7_Bully_Election_Algorithm/main.py   (BullySystem)          *)
(*   - anigay/Q7/bully_algorithm.py       (Node)                           *)
(* Each program is a separate Python script, so each has its own           *)
(* specification; the variables of the other programs stay at their        *)
(* initial values.                                                         *)
(***************************************************************************)
EXTENDS Integers, Sequences, FiniteSets, Bags, TLC

Max(a, b) == IF a >= b THEN a ELSE b

SetMin(S) == CHOOSE x \in S : \A y \in S : y >= x

SetMax(S) == CHOOSE x \in S : \A y \in S : y <= x

(***************************************************************************)
(* nagoba/Q1_Banking_System/main.py                                        *)
(***************************************************************************)

\* main(): servers = [Server(1), Server(2), Server(3)]
NumServers == 3

HEARTBEAT_INTERVAL == 1

HEARTBEAT_TIMEOUT == 3

\* main() calls bully_election itself once, for the initial election.
MainElections == 1

\* Bound of the exploration: the process() calls made.
MaxTx == 2

\* Threads that may be inside bully_election at the same time.
MaxElecting == 2

Servers == 1..NumServers

\* Thread 0 is the main thread (the TransactionManager's caller); thread s in
\* Servers is the heartbeat_monitor thread of server s.
MainThread == 0

Threads == {MainThread} \cup Servers

AccountIds == {"A", "B"}

Amounts == {200, -50}

\* No server / None.
NoServer == 0

\* Below every order key: nothing applied yet.
NoKey == -1

VARIABLES
    alive,            \* Server.alive
    is_leader,        \* Server.is_leader
    clock,            \* Server.clock
    accounts,         \* Server.accounts (a dict: account -> balance)
    since_heartbeat,  \* time.time() - Server.last_heartbeat, see TimePasses
    pc,               \* position of each thread
    caller,           \* who called bully_election in this thread
    el_i,             \* bully_election: index of the running loop
    el_alive,         \* bully_election: the list `alive` built so far
    el_leader,        \* bully_election: new_leader (NoServer: None)
    p_account,        \* process(): account
    p_amount,         \* process(): amount
    p_i,              \* process(): index of the running loop
    p_leader,         \* process(): leader (NoServer: None)
    p_leader_time,    \* process(): leader_time
    p_pre,            \* ghost: accounts of every server when process() was called
    p_dead,           \* ghost: every server was dead when process() was called
    p_result,         \* ghost: how the last process() call ended
    ntx,              \* ghost: number of process() calls made
    nmain,            \* ghost: number of bully_election calls made by main()
    crashing,         \* server inside crash() between its two assignments
    send_chk,         \* heartbeat_sender threads at the loop test, per leader
    send_slp,         \* heartbeat_sender threads in sleep(), per leader
    hw,               \* ghost: highest ordered_ts each server has applied
    last_call,        \* ghost: the last method call and what it returned
    ncalls,           \* ghost: number of direct method calls made
    prog,             \* which of the programs runs
    \* Q1/banking_system.py, BankingServer
    bk_alive,         \* is_alive
    bk_listening,     \* the listener thread is in accept() on the bound socket
    bk_is_leader,     \* is_leader
    current_leader,   \* current_leader (NoServer: None)
    logical_clock,    \* logical_clock
    bk_accounts,      \* accounts (defaultdict(float))
    transaction_log,  \* transaction_log
    bk_mon,           \* position of each server's _monitor_leader thread
    bk_reply,         \* ghost: the response to the transaction submitted in the last step
    \* anigay/Q4/distributed_logging.py, DistributedServer
    lamport_clock,    \* lamport_clock
    logs,             \* logs
    central_logs,     \* CentralLogManager.central_logs
    dl_before,        \* ghost: per server, the logged events <<server_id, lamport_clock>> that happened before its present
    dl_hb,            \* ghost: the pairs <<A, B>> of logged events with A happened-before B
    \* nagoba/Q7_Bully_Election_Algorithm/main.py, BullySystem
    bs_alive,         \* nodes[nid].alive
    coordinator,      \* coordinator
    bs_call,          \* ghost: the last method call made on the system
    \* anigay/Q7/bully_algorithm.py, Node
    nd_alive,         \* is_alive
    is_coordinator,   \* is_coordinator
    nd_threads,       \* bag of the running start_election calls
    nd_settling,      \* ghost: an election was started and no crash or recover since
    nd_calls,         \* ghost: number of crash, recover and start_election calls made from outside
    \* one node's clock and the threads that call into it
    lk_kind,          \* "server": a Server, "bank": a BankingServer
    lk_clock,         \* self.clock / self.logical_clock
    lk_owner,         \* thread holding self.lock (0: free)
    lk_pc,            \* position of each calling thread
    lk_op,            \* the call each thread makes
    lk_arg,           \* ordered_ts of an apply_transaction call
    lk_tmp,           \* the value the thread read from the clock
    lk_ret,           \* the clock value the call observed
    lk_balance,       \* accounts[acc] of the BankingServer, as the sum credited
    lk_seen,          \* the balance the thread read in `accounts[acc] += amount`
    lk_log,           \* timestamps of transaction_log, in append order
    \* nagoba/Q8_Ring_Election_Algorithm/main.py, RingElectionSystem
    rg_alive,         \* processes[i].alive, by process id
    rg_coordinator,   \* coordinator
    rg_call,          \* ghost: the last method call made on the system
    \* anigay/Q8/ring_election.py, RingNode
    rn_alive,         \* is_alive
    rn_coordinator,   \* is_coordinator
    rn_threads,       \* the running _receive_message threads
    rn_settling,      \* ghost: an election was started on an alive node and no crash since
    rn_quiet,         \* ghost: that election was started alone, and no recover or other start since
    rn_calls,         \* ghost: number of crash, recover and start_election calls made from outside
    \* Q6/vector_clocks.py, DistributedProcess
    vc,               \* vc.clock of each process
    vc_msgs,          \* the timestamps returned by send_message and not yet passed to receive_message
    vc_sending,       \* the processes whose thread is in send_message between the lock and the return
    vc_events,        \* ghost: number of local, send and receive events so far
    \* Q9/kv_store.py, KVReplica and DistributedKVStore
    kv_data,          \* data
    kv_version,       \* version (defaultdict(int))
    kv_threads,       \* the running write_eventual_consistency calls and propagate threads
    kv_ret,           \* ghost: the last apply_update call and what it returned
    kv_writes,        \* ghost: number of writes issued
    \* nagoba/Q9_Key_Value_Store_Consistency/main.py, ReplicationSystem
    rs_store,         \* store of each Replica
    rs_timers,        \* the scheduled and the running _propagate_from calls
    rs_writes         \* ghost: number of updates issued

q1shared == <<alive, is_leader, clock, accounts, since_heartbeat>>

q1elect == <<caller, el_i, el_alive, el_leader>>

q1proc == <<p_account, p_amount, p_i, p_leader, p_leader_time, p_pre, p_dead,
           p_result, ntx>>

q1send == <<send_chk, send_slp>>

q1vars == <<q1shared, pc, q1elect, q1proc, nmain, crashing, q1send, hw, last_call,
           ncalls>>

bkvars == <<bk_alive, bk_listening, bk_is_leader, current_leader, logical_clock,
           bk_accounts, transaction_log, bk_mon, bk_reply>>

dlvars == <<lamport_clock, logs, central_logs, dl_before, dl_hb>>

bsvars == <<bs_alive, coordinator, bs_call>>

ndvars == <<nd_alive, is_coordinator, nd_threads, nd_settling, nd_calls>>

lkvars == <<lk_kind, lk_clock, lk_owner, lk_pc, lk_op, lk_arg, lk_tmp, lk_ret,
           lk_balance, lk_seen, lk_log>>

rgvars == <<rg_alive, rg_coordinator, rg_call>>

rnvars == <<rn_alive, rn_coordinator, rn_threads, rn_settling, rn_quiet, rn_calls>>

vcvars == <<vc, vc_msgs, vc_sending, vc_events>>

kvvars == <<kv_data, kv_version, kv_threads, kv_ret, kv_writes>>

rsvars == <<rs_store, rs_timers, rs_writes>>

vars == <<prog, q1vars, bkvars, dlvars, bsvars, ndvars, lkvars, rgvars, rnvars,
          vcvars, kvvars, rsvars>>

\* What the actions of one program leave alone: the other programs.
Q1Frame == UNCHANGED <<prog, ncalls, bkvars, dlvars, bsvars, ndvars, lkvars, rgvars, rnvars,
                       vcvars, kvvars, rsvars>>

BkFrame == UNCHANGED <<prog, q1vars, dlvars, bsvars, ndvars, lkvars, rgvars, rnvars,
                       vcvars, kvvars, rsvars>>

DlFrame == UNCHANGED <<prog, q1vars, bkvars, bsvars, ndvars, lkvars, rgvars, rnvars,
                       vcvars, kvvars, rsvars>>

BsFrame == UNCHANGED <<prog, q1vars, bkvars, dlvars, ndvars, lkvars, rgvars, rnvars,
                       vcvars, kvvars, rsvars>>

NdFrame == UNCHANGED <<prog, q1vars, bkvars, dlvars, bsvars, lkvars, rgvars, rnvars,
                       vcvars, kvvars, rsvars>>

LkFrame == UNCHANGED <<prog, q1vars, bkvars, dlvars, bsvars, ndvars, rgvars, rnvars,
                       vcvars, kvvars, rsvars>>

RgFrame == UNCHANGED <<prog, q1vars, bkvars, dlvars, bsvars, ndvars, lkvars, rnvars,
                       vcvars, kvvars, rsvars>>

RnFrame == UNCHANGED <<prog, q1vars, bkvars, dlvars, bsvars, ndvars, lkvars, rgvars,
                       vcvars, kvvars, rsvars>>

VcFrame == UNCHANGED <<prog, q1vars, bkvars, dlvars, bsvars, ndvars, lkvars, rgvars,
                       rnvars, kvvars, rsvars>>

KvFrame == UNCHANGED <<prog, q1vars, bkvars, dlvars, bsvars, ndvars, lkvars, rgvars,
                       rnvars, vcvars, rsvars>>

RsFrame == UNCHANGED <<prog, q1vars, bkvars, dlvars, bsvars, ndvars, lkvars, rgvars,
                       rnvars, vcvars, kvvars>>

\* dict.get(account, 0)
Get(acc, a) == IF a \in DOMAIN acc THEN acc[a] ELSE 0

\* Mutant: the clock is returned without being advanced.
TickClockStuck(c) == c

\* Server.tick: self.clock += 1; return self.clock
TickClock(c) == c + 1

\* Mutant: the clock is set from the order key alone, without the maximum.
MergeClockNoMax(c, ordered_ts) == ordered_ts + 1

\* Mutant: the order key is not merged into the clock.
MergeClockKeep(c, ordered_ts) == c

\* Mutant: the maximum is taken but the clock is not advanced past it.
MergeClockNoTick(c, ordered_ts) == Max(c, ordered_ts)

\* Server.apply_transaction: self.clock = max(self.clock, ordered_ts) + 1
MergeClock(c, ordered_ts) == Max(c, ordered_ts) + 1

\* Mutant: the balance is overwritten with the amount instead of increased by it.
ApplyAccountsOverwrite(acc, account, amount) ==
    [a \in (DOMAIN acc) \cup {account} |-> IF a = account THEN amount ELSE acc[a]]

\* Server.apply_transaction: self.accounts[account] = self.accounts.get(account, 0) + amount
ApplyAccounts(acc, account, amount) ==
    [a \in (DOMAIN acc) \cup {account} |->
        IF a = account THEN Get(acc, account) + amount ELSE acc[a]]

NoCall == [op |-> "none", s |-> NoServer, ts |-> 0, ret |-> 0]

\* Server.__init__ for every server of main(), and the threads main() starts;
\* d: the time since the servers were constructed.
Q1Fresh(d) ==
    /\ alive = [s \in Servers |-> TRUE]
    /\ is_leader = [s \in Servers |-> FALSE]
    /\ clock = [s \in Servers |-> 0]
    /\ accounts = [s \in Servers |-> [a \in {"A"} |-> 1000]]
    /\ since_heartbeat = [s \in Servers |-> d]
    /\ pc = [t \in Threads |-> IF t = MainThread THEN "idle" ELSE "mon_sleep"]
    /\ caller = [t \in Threads |-> "none"]
    /\ el_i = [t \in Threads |-> 0]
    /\ el_alive = [t \in Threads |-> {}]
    /\ el_leader = [t \in Threads |-> NoServer]
    /\ p_account = "A"
    /\ p_amount = 0
    /\ p_i = 0
    /\ p_leader = NoServer
    /\ p_leader_time = 0
    /\ p_pre = accounts
    /\ p_dead = FALSE
    /\ p_result = "none"
    /\ ntx = 0
    /\ nmain = 0
    /\ crashing = NoServer
    /\ send_chk = [s \in Servers |-> 0]
    /\ send_slp = [s \in Servers |-> 0]
    /\ hw = [s \in Servers |-> NoKey]
    /\ last_call = NoCall
    /\ ncalls = 0

(* ---- bully_election(servers), run by thread t ---- *)

\* Threads inside bully_election.
Electing == {t \in Threads : pc[t] \in {"el_read", "el_clear", "el_set", "el_ret"}}

\* The call: the thread enters bully_election and starts building `alive`.
CallElection(t, who) ==
    /\ Cardinality(Electing) < MaxElecting
    /\ pc' = [pc EXCEPT ![t] = "el_read"]
    /\ caller' = [caller EXCEPT ![t] = who]
    /\ el_i' = [el_i EXCEPT ![t] = 1]
    /\ el_alive' = [el_alive EXCEPT ![t] = {}]
    /\ el_leader' = [el_leader EXCEPT ![t] = NoServer]

\* Mutant: with no server alive the election still names the highest id.
NewLeaderOfAll(aliveList) == IF aliveList = {} THEN SetMax(Servers) ELSE SetMax(aliveList)

\* new_leader = max(alive, key=lambda s: s.sid); None when alive is empty
NewLeader(aliveList) == IF aliveList = {} THEN NoServer ELSE SetMax(aliveList)

\* alive = [s for s in servers if s.alive]: one read of s.alive per step; after
\* the last read, `if not alive: return None` and new_leader = max(alive).
ElRead(t) ==
    /\ pc[t] = "el_read"
    /\ LET i == el_i[t]
           lst == IF alive[i] THEN el_alive[t] \cup {i} ELSE el_alive[t]
       IN IF i < NumServers
          THEN /\ el_alive' = [el_alive EXCEPT ![t] = lst]
               /\ el_i' = [el_i EXCEPT ![t] = i + 1]
               /\ UNCHANGED <<pc, el_leader>>
          ELSE /\ el_alive' = [el_alive EXCEPT ![t] = {}]
               /\ el_leader' = [el_leader EXCEPT ![t] = NewLeader(lst)]
               /\ el_i' = [el_i EXCEPT ![t] = IF lst = {} THEN 0 ELSE 1]
               /\ pc' = [pc EXCEPT ![t] = IF lst = {} THEN "el_ret" ELSE "el_clear"]
    /\ UNCHANGED <<q1shared, caller, q1proc, nmain, crashing, q1send, hw, last_call>>
    /\ Q1Frame

\* for s in servers: s.is_leader = False
ElClear(t) ==
    /\ pc[t] = "el_clear"
    /\ is_leader' = [is_leader EXCEPT ![el_i[t]] = FALSE]
    /\ IF el_i[t] < NumServers
       THEN /\ el_i' = [el_i EXCEPT ![t] = el_i[t] + 1]
            /\ UNCHANGED pc
       ELSE /\ el_i' = [el_i EXCEPT ![t] = 0]
            /\ pc' = [pc EXCEPT ![t] = "el_set"]
    /\ UNCHANGED <<alive, clock, accounts, since_heartbeat, caller, el_alive,
                   el_leader, q1proc, nmain, crashing, q1send, hw, last_call>>
    /\ Q1Frame

\* Mutant: the server whose monitor ran the election declares itself leader.
ElSetSelf(t) ==
    /\ pc[t] = "el_set"
    /\ is_leader' = [is_leader EXCEPT ![IF t = MainThread THEN el_leader[t] ELSE t] = TRUE]
    /\ pc' = [pc EXCEPT ![t] = "el_ret"]
    /\ UNCHANGED <<alive, clock, accounts, since_heartbeat, q1elect, q1proc,
                   nmain, crashing, q1send, hw, last_call>>
    /\ Q1Frame

\* new_leader.is_leader = True; return new_leader
ElSet(t) ==
    /\ pc[t] = "el_set"
    /\ is_leader' = [is_leader EXCEPT ![el_leader[t]] = TRUE]
    /\ pc' = [pc EXCEPT ![t] = "el_ret"]
    /\ UNCHANGED <<alive, clock, accounts, since_heartbeat, q1elect, q1proc,
                   nmain, crashing, q1send, hw, last_call>>
    /\ Q1Frame

\* Return from bully_election to the caller: the frame's locals are gone.
ElReturn(t) ==
    /\ caller' = [caller EXCEPT ![t] = "none"]
    /\ el_leader' = [el_leader EXCEPT ![t] = NoServer]
    /\ UNCHANGED <<el_i, el_alive>>

\* threading.Thread(target=heartbeat_sender, args=(leader, servers)).start()
SpawnSender(leader) ==
    IF leader = NoServer
    THEN UNCHANGED q1send
    ELSE /\ send_chk' = [send_chk EXCEPT ![leader] = @ + 1]
         /\ UNCHANGED send_slp

(* ---- heartbeat_monitor(server, servers), thread t = server.sid ---- *)

\* if time.time() - server.last_heartbeat > HEARTBEAT_TIMEOUT
TimedOut(t) == since_heartbeat[t] > HEARTBEAT_TIMEOUT

\* The thread sleeps in time.sleep(1) (every server is alive when main() starts
\* the monitors, so each passes its first loop test). It wakes:
\* `if not server.is_leader:` and the timeout test; on a timeout it calls
\* bully_election(servers), otherwise it is back at the loop test
\* `while server.alive:` and sleeps again or ends.
MonWake(t) ==
    /\ pc[t] = "mon_sleep"
    /\ IF ~is_leader[t] /\ TimedOut(t)
       THEN CallElection(t, "monitor")
       ELSE /\ pc' = [pc EXCEPT ![t] = IF alive[t] THEN "mon_sleep" ELSE "done"]
            /\ UNCHANGED q1elect
    /\ UNCHANGED <<q1shared, q1proc, nmain, crashing, q1send, hw, last_call>>
    /\ Q1Frame

\* if new_leader is not None: start heartbeat_sender; break
MonSpawn(t) ==
    /\ pc[t] = "el_ret"
    /\ caller[t] = "monitor"
    /\ SpawnSender(el_leader[t])
    /\ ElReturn(t)
    /\ pc' = [pc EXCEPT ![t] = "done"]
    /\ UNCHANGED <<q1shared, q1proc, nmain, crashing, hw, last_call>>
    /\ Q1Frame

(* ---- heartbeat_sender(leader, servers) ---- *)

\* while leader.alive and leader.is_leader:
SenderRuns(l) == alive[l] /\ is_leader[l]

\* The first loop test of a sender thread (then time.sleep(HEARTBEAT_INTERVAL))
SenderCheck(l) ==
    /\ send_chk[l] > 0
    /\ send_chk' = [send_chk EXCEPT ![l] = @ - 1]
    /\ send_slp' = [send_slp EXCEPT ![l] = IF SenderRuns(l) THEN @ + 1 ELSE @]
    /\ UNCHANGED <<q1shared, pc, q1elect, q1proc, nmain, crashing, hw, last_call>>
    /\ Q1Frame

\* now = time.time(); for s in servers: if s.sid != leader.sid and s.alive:
\* s.last_heartbeat = now
Heartbeats(l) ==
    [s \in Servers |-> IF s # l /\ alive[s] THEN 0 ELSE since_heartbeat[s]]

\* The thread wakes from its sleep, writes the heartbeats and is back at the loop
\* test: it sleeps again or ends.
SenderBeat(l) ==
    /\ send_slp[l] > 0
    /\ since_heartbeat' = Heartbeats(l)
    /\ send_slp' = [send_slp EXCEPT ![l] = IF SenderRuns(l) THEN @ ELSE @ - 1]
    /\ UNCHANGED <<alive, is_leader, clock, accounts, pc, q1elect, q1proc,
                   nmain, crashing, send_chk, hw, last_call>>
    /\ Q1Frame

(* ---- Server.crash ---- *)

\* self.alive = False
CrashBegin(s) ==
    /\ crashing = NoServer
    /\ alive' = [alive EXCEPT ![s] = FALSE]
    /\ crashing' = s
    /\ UNCHANGED <<is_leader, clock, accounts, since_heartbeat, pc, q1elect,
                   q1proc, nmain, q1send, hw, last_call>>
    /\ Q1Frame

\* self.is_leader = False
CrashEnd ==
    /\ crashing # NoServer
    /\ is_leader' = [is_leader EXCEPT ![crashing] = FALSE]
    /\ crashing' = NoServer
    /\ UNCHANGED <<alive, clock, accounts, since_heartbeat, pc, q1elect,
                   q1proc, nmain, q1send, hw, last_call>>
    /\ Q1Frame

(* ---- main(): the initial bully_election and its heartbeat_sender ---- *)

MainElection ==
    /\ pc[MainThread] = "idle"
    /\ nmain < MainElections
    /\ nmain' = nmain + 1
    /\ CallElection(MainThread, "main")
    /\ UNCHANGED <<q1shared, q1proc, crashing, q1send, hw, last_call>>
    /\ Q1Frame

MainSpawn ==
    /\ pc[MainThread] = "el_ret"
    /\ caller[MainThread] = "main"
    /\ SpawnSender(el_leader[MainThread])
    /\ ElReturn(MainThread)
    /\ pc' = [pc EXCEPT ![MainThread] = "idle"]
    /\ UNCHANGED <<q1shared, q1proc, nmain, crashing, hw, last_call>>
    /\ Q1Frame

(* ---- TransactionManager.process(account, amount), on the main thread ---- *)

StartProcess(account, amount) ==
    /\ pc[MainThread] = "idle"
    /\ ntx < MaxTx
    /\ ntx' = ntx + 1
    /\ p_account' = account
    /\ p_amount' = amount
    /\ p_i' = 1
    /\ p_leader' = NoServer
    /\ p_leader_time' = 0
    /\ p_pre' = accounts
    /\ p_dead' = (\A s \in Servers : ~alive[s])
    /\ p_result' = "running"
    /\ pc' = [pc EXCEPT ![MainThread] = "p_find"]
    /\ UNCHANGED <<q1shared, q1elect, nmain, crashing, q1send, hw, last_call>>
    /\ Q1Frame

\* leader = next((s for s in self.servers if s.is_leader and s.alive), None):
\* one server examined per step; `if not leader:` calls bully_election.
PFind ==
    /\ pc[MainThread] = "p_find"
    /\ IF is_leader[p_i] /\ alive[p_i]
       THEN /\ p_leader' = p_i
            /\ p_i' = 0
            /\ pc' = [pc EXCEPT ![MainThread] = "p_tick"]
            /\ UNCHANGED q1elect
       ELSE IF p_i < NumServers
            THEN /\ p_i' = p_i + 1
                 /\ UNCHANGED <<p_leader, pc, q1elect>>
            ELSE /\ p_i' = 0
                 /\ UNCHANGED p_leader
                 /\ CallElection(MainThread, "process")
    /\ UNCHANGED <<q1shared, p_account, p_amount, p_leader_time, p_pre, p_dead,
                   p_result, ntx, nmain, crashing, q1send, hw, last_call>>
    /\ Q1Frame

\* leader = bully_election(self.servers); if leader: start heartbeat_sender
PSpawn ==
    /\ pc[MainThread] = "el_ret"
    /\ caller[MainThread] = "process"
    /\ p_leader' = el_leader[MainThread]
    /\ SpawnSender(el_leader[MainThread])
    /\ ElReturn(MainThread)
    /\ pc' = [pc EXCEPT ![MainThread] = "p_tick"]
    /\ UNCHANGED <<q1shared, p_account, p_amount, p_i, p_leader_time, p_pre, p_dead,
                   p_result, ntx, nmain, crashing, hw, last_call>>
    /\ Q1Frame

\* leader_time = leader.tick(); with leader None the call raises AttributeError
\* and process() ends there.
PTick ==
    /\ pc[MainThread] = "p_tick"
    /\ IF p_leader = NoServer
       THEN /\ p_result' = "error"
            /\ pc' = [pc EXCEPT ![MainThread] = "idle"]
            /\ UNCHANGED <<clock, p_leader_time, p_i, last_call>>
       ELSE /\ clock' = [clock EXCEPT ![p_leader] = TickClock(clock[p_leader])]
            /\ p_leader_time' = clock'[p_leader]
            /\ last_call' = [op |-> "tick", s |-> p_leader, ts |-> 0,
                             ret |-> clock'[p_leader]]
            /\ p_i' = 1
            /\ pc' = [pc EXCEPT ![MainThread] = "p_apply"]
            /\ UNCHANGED p_result
    /\ UNCHANGED <<alive, is_leader, accounts, since_heartbeat, q1elect,
                   p_account, p_amount, p_leader, p_pre, p_dead, ntx,
                   nmain, crashing, q1send, hw>>
    /\ Q1Frame

\* Mutant: the leader, which stamped the transaction, is skipped by the loop.
PApplySkipLeader ==
    /\ pc[MainThread] = "p_apply"
    /\ IF alive[p_i] /\ p_i # p_leader
       THEN /\ clock' = [clock EXCEPT ![p_i] = MergeClock(clock[p_i], p_leader_time)]
            /\ accounts' = [accounts EXCEPT
                               ![p_i] = ApplyAccounts(accounts[p_i], p_account, p_amount)]
            /\ hw' = [hw EXCEPT ![p_i] = Max(@, p_leader_time)]
            /\ last_call' = [op |-> "apply", s |-> p_i, ts |-> p_leader_time,
                             ret |-> clock'[p_i]]
       ELSE UNCHANGED <<clock, accounts, hw, last_call>>
    /\ IF p_i < NumServers
       THEN /\ p_i' = p_i + 1
            /\ UNCHANGED <<pc, p_result>>
       ELSE /\ p_i' = 0
            /\ p_result' = "ok"
            /\ pc' = [pc EXCEPT ![MainThread] = "idle"]
    /\ UNCHANGED <<alive, is_leader, since_heartbeat, q1elect, p_account, p_amount,
                   p_leader, p_leader_time, p_pre, p_dead, ntx, nmain,
                   crashing, q1send>>
    /\ Q1Frame

\* for s in self.servers: if s.alive: ts = s.apply_transaction(account, amount, leader_time)
PApply ==
    /\ pc[MainThread] = "p_apply"
    /\ IF alive[p_i]
       THEN /\ clock' = [clock EXCEPT ![p_i] = MergeClock(clock[p_i], p_leader_time)]
            /\ accounts' = [accounts EXCEPT
                               ![p_i] = ApplyAccounts(accounts[p_i], p_account, p_amount)]
            /\ hw' = [hw EXCEPT ![p_i] = Max(@, p_leader_time)]
            /\ last_call' = [op |-> "apply", s |-> p_i, ts |-> p_leader_time,
                             ret |-> clock'[p_i]]
       ELSE UNCHANGED <<clock, accounts, hw, last_call>>
    /\ IF p_i < NumServers
       THEN /\ p_i' = p_i + 1
            /\ UNCHANGED <<pc, p_result>>
       ELSE /\ p_i' = 0
            /\ p_result' = "ok"
            /\ pc' = [pc EXCEPT ![MainThread] = "idle"]
    /\ UNCHANGED <<alive, is_leader, since_heartbeat, q1elect, p_account, p_amount,
                   p_leader, p_leader_time, p_pre, p_dead, ntx, nmain,
                   crashing, q1send>>
    /\ Q1Frame

\* One time unit passes. The program reads last_heartbeat only in the test
\* time.time() - server.last_heartbeat > HEARTBEAT_TIMEOUT, so the model keeps
\* that difference, and stops counting once it exceeds the timeout.
Older(d) == IF d > HEARTBEAT_TIMEOUT THEN d ELSE d + 1

TimePasses ==
    /\ since_heartbeat' = [s \in Servers |-> Older(since_heartbeat[s])]
    /\ since_heartbeat' # since_heartbeat
    /\ UNCHANGED <<alive, is_leader, clock, accounts, pc, q1elect,
                   q1proc, nmain, crashing, q1send, hw, last_call>>
    /\ Q1Frame

(* ---- Server.tick and Server.apply_transaction called directly ---- *)

\* Bounds of the direct calls: the number of calls and the order keys passed.
MaxCalls == 2

MaxKey == 2

OrderKeys == 0..MaxKey

\* server.tick()
ServerTick(s) ==
    /\ ncalls < MaxCalls
    /\ ncalls' = ncalls + 1
    /\ clock' = [clock EXCEPT ![s] = TickClock(clock[s])]
    /\ last_call' = [op |-> "tick", s |-> s, ts |-> 0, ret |-> clock'[s]]
    /\ UNCHANGED <<alive, is_leader, accounts, since_heartbeat, pc, q1elect, q1proc,
                   nmain, crashing, q1send, hw>>
    /\ UNCHANGED <<prog, bkvars, dlvars, bsvars, ndvars, lkvars, rgvars, rnvars,
                   vcvars, kvvars, rsvars>>

\* server.apply_transaction(account, amount, ordered_ts)
ServerApply(s, account, amount, ordered_ts) ==
    /\ ncalls < MaxCalls
    /\ ncalls' = ncalls + 1
    /\ clock' = [clock EXCEPT ![s] = MergeClock(clock[s], ordered_ts)]
    /\ accounts' = [accounts EXCEPT ![s] = ApplyAccounts(accounts[s], account, amount)]
    /\ hw' = [hw EXCEPT ![s] = Max(@, ordered_ts)]
    /\ last_call' = [op |-> "apply", s |-> s, ts |-> ordered_ts, ret |-> clock'[s]]
    /\ UNCHANGED <<alive, is_leader, since_heartbeat, pc, q1elect, q1proc,
                   nmain, crashing, q1send>>
    /\ UNCHANGED <<prog, bkvars, dlvars, bsvars, ndvars, lkvars, rgvars, rnvars,
                   vcvars, kvvars, rsvars>>

ServerCallNext ==
    \/ \E s \in Servers : ServerTick(s)
    \/ \E s \in Servers, a \in AccountIds, m \in Amounts, k \in OrderKeys :
          ServerApply(s, a, m, k)

(***************************************************************************)
(* anigay/Q4/distributed_logging.py: DistributedServer                     *)
(***************************************************************************)

\* simulate_distributed_logging(): servers 1, 2, 3
NumLogServers == 3

LogServers == 1..NumLogServers

Events == {"Database Query", "Cache Hit"}

\* Bound of the Lamport clocks explored.
MaxLamport == 2

DlFresh ==
    /\ lamport_clock = [d \in LogServers |-> 0]
    /\ logs = [d \in LogServers |-> <<>>]
    /\ central_logs = <<>>
    /\ dl_before = [d \in LogServers |-> {}]
    /\ dl_hb = {}

\* LogEntry(event, server_id, lamport_clock)
LogEntry(event, d, lc) == [event |-> event, server_id |-> d, lamport_clock |-> lc]

\* DistributedServer.log_event: self.lamport_clock += 1; the entry is appended.
\* The new event comes after everything that happened before the server's
\* present.
LogEventCall(d, event) ==
    /\ lamport_clock' = [lamport_clock EXCEPT ![d] = TickClock(lamport_clock[d])]
    /\ logs' = [logs EXCEPT ![d] = Append(@, LogEntry(event, d, lamport_clock'[d]))]
    /\ dl_hb' = dl_hb \cup {<<A, <<d, lamport_clock'[d]>>>> : A \in dl_before[d]}
    /\ dl_before' = [dl_before EXCEPT ![d] = @ \cup {<<d, lamport_clock'[d]>>}]
    /\ UNCHANGED central_logs
    /\ DlFrame

LogEvent(d, event) ==
    /\ lamport_clock[d] < MaxLamport
    /\ LogEventCall(d, event)

\* DistributedServer.receive_message:
\* Mutant: the remote value is ignored.
ReceiveClockLocal(c, remote_lamport) == c + 1

\* self.lamport_clock = max(self.lamport_clock, remote_lamport) + 1
ReceiveClock(c, remote_lamport) == Max(c, remote_lamport) + 1

\* receive_message(remote_lamport) on server d; learned: the logged events
\* the message tells of (none when the value is no event's stamp).
ReceiveMessageCall(d, remote_lamport, learned) ==
    /\ lamport_clock' = [lamport_clock EXCEPT ![d] = ReceiveClock(lamport_clock[d], remote_lamport)]
    /\ dl_before' = [dl_before EXCEPT ![d] = @ \cup learned]
    /\ UNCHANGED <<logs, central_logs, dl_hb>>
    /\ DlFrame

ReceiveMessage(d, remote_lamport) ==
    /\ lamport_clock[d] < MaxLamport
    /\ remote_lamport < MaxLamport
    /\ ReceiveMessageCall(d, remote_lamport, {})

DlNext ==
    \/ \E d \in LogServers, e \in Events : LogEvent(d, e)
    \/ \E d \in LogServers, r \in 0..MaxLamport : ReceiveMessage(d, r)

\* Bound of the Lamport clocks where servers send each other the stamps of
\* their events.
MaxCausalClock == 3

\* A logged event, named by its server and its Lamport value.
EventOf(entry) == <<entry.server_id, entry.lamport_clock>>

\* The logged events that happened before the logged event X.
Past(X) == {A \in {p[1] : p \in dl_hb} : <<A, X>> \in dl_hb}

\* Server d logs an event.
LogsEvent(d) ==
    /\ lamport_clock[d] < MaxCausalClock
    /\ LogEventCall(d, "Cache Hit")

\* Server j calls receive_message(c), c the Lamport value of the k-th event
\* logged on another server i.
ReceivesStamp(j, i, k) ==
    /\ i # j
    /\ k \in DOMAIN logs[i]
    /\ lamport_clock[j] < MaxCausalClock
    /\ logs[i][k].lamport_clock < MaxCausalClock
    /\ ReceiveMessageCall(j, logs[i][k].lamport_clock,
                          {EventOf(logs[i][k])} \cup Past(EventOf(logs[i][k])))

CausalNext ==
    \/ \E d \in LogServers : LogsEvent(d)
    \/ \E j, i \in LogServers, k \in 1..MaxCausalClock : ReceivesStamp(j, i, k)

\* Mutant: entries are compared by server id alone.
EntryLessByServer(a, b) == a.server_id < b.server_id

\* LogEntry.__lt__
EntryLess(a, b) ==
    IF a.lamport_clock # b.lamport_clock
    THEN a.lamport_clock < b.lamport_clock
    ELSE a.server_id < b.server_id

\* all_logs.extend(server.get_logs()) for the servers 1 .. d of
\* self.servers, in the order of the dict
RECURSIVE AllLogs(_)
AllLogs(d) == IF d = 0 THEN <<>> ELSE AllLogs(d - 1) \o logs[d]

\* list.sort() compares with __lt__ only and is stable: an entry goes in front
\* of the first entry it is less than.
RECURSIVE InsertEntry(_, _)
InsertEntry(sorted, e) ==
    IF sorted = <<>> THEN <<e>>
    ELSE IF EntryLess(e, Head(sorted)) THEN <<e>> \o sorted
    ELSE <<Head(sorted)>> \o InsertEntry(Tail(sorted), e)

RECURSIVE SortLogs(_)
SortLogs(all_logs) ==
    IF all_logs = <<>> THEN <<>>
    ELSE InsertEntry(SortLogs(SubSeq(all_logs, 1, Len(all_logs) - 1)),
                     all_logs[Len(all_logs)])

\* CentralLogManager.merge_logs, called by the main thread after the logging
\* threads were joined
MergeLogs ==
    /\ central_logs' = SortLogs(AllLogs(NumLogServers))
    /\ UNCHANGED <<lamport_clock, logs, dl_before, dl_hb>>
    /\ DlFrame

LogNext ==
    \/ DlNext
    \/ MergeLogs

(***************************************************************************)
(* Q1/banking_system.py: BankingServer                                     *)
(***************************************************************************)

\* simulate_banking_system(): servers 1, 2, 3
NumBankServers == 3

BankServers == 1..NumBankServers

BankAccounts == {"ACC001", "ACC002"}

BankAmounts == {500}

\* Bounds of the exploration: the logical clocks and the admitted transactions.
MaxBankClock == 2

MaxBankTx == 1

\* Transactions admitted so far, over all servers.
Admitted == Len(transaction_log[1]) + Len(transaction_log[2]) + Len(transaction_log[3])

\* The responses of _process_request (and None when nothing answers).
NoReply == "None"

UnknownReply == "Unknown request"

\* What a transaction submission returns to its caller: the text of the
\* result and the leader it names (NoServer: None, or no leader named).
Result(text, leader) == [text |-> text, leader |-> leader]

NoResult == Result("none", NoServer)

\* perform_transaction: {'error': 'Not a leader. Leader is: ' + str(self.current_leader)}
NotALeader == "Not a leader. Leader is: "

\* BankingServer.__init__ and start(): the listener has bound its socket and the
\* monitor sleeps in its first time.sleep(2).
BkFresh ==
    /\ bk_alive = [b \in BankServers |-> TRUE]
    /\ bk_listening = [b \in BankServers |-> TRUE]
    /\ bk_is_leader = [b \in BankServers |-> FALSE]
    /\ current_leader = [b \in BankServers |-> NoServer]
    /\ logical_clock = [b \in BankServers |-> 0]
    /\ bk_accounts = [b \in BankServers |-> [a \in {} |-> 0]]
    /\ transaction_log = [b \in BankServers |-> <<>>]
    /\ bk_mon = [b \in BankServers |-> "sleep"]
    /\ bk_reply = NoResult

\* What _process_request answers to a request of each type, before the
\* transaction branch looks at is_leader: only 'transaction', 'election' and
\* 'heartbeat' have a branch; every other type falls through to
\* return {'error': 'Unknown request'}.
ReplyTo(type) ==
    CASE type = "transaction" -> "transaction"
      [] type = "election" -> "success"
      [] type = "heartbeat" -> "success leader"
      [] OTHER -> UnknownReply

\* response and response.get('alive'): no response of _process_request has
\* the key 'alive'.
SaysAlive(response) == response = "alive"

\* One _send_message over the socket to a server that is not running an
\* election for it: the state of the receivers is the pair
\* [clk |-> logical clocks, lis |-> listening]. A listener in accept() takes the
\* connection, the handler runs _process_request (logical_clock += 1 under the
\* lock), and the listener tests `while self.is_alive` again: it stays in
\* accept() or returns, which closes the socket.
Deliver(st, to) ==
    IF st.lis[to]
    THEN [clk |-> [st.clk EXCEPT ![to] = TickClock(st.clk[to])],
          lis |-> [st.lis EXCEPT ![to] = bk_alive[to]]]
    ELSE st

\* The response _send_message returns: None when the connection is refused.
Response(st, to, type) == IF st.lis[to] THEN ReplyTo(type) ELSE NoReply

RECURSIVE DeliverAll(_, _)
DeliverAll(st, targets) ==
    IF targets = <<>> THEN st
    ELSE DeliverAll(Deliver(st, Head(targets)), Tail(targets))

\* sorted(self.all_servers.keys(), reverse=True) without the ids <= server_id
RECURSIVE Descending(_, _)
Descending(from, downto) ==
    IF from <= downto THEN <<>> ELSE <<from>> \o Descending(from - 1, downto)

HigherServers(b) == Descending(NumBankServers, b)

\* self.all_servers.keys() without server_id, in the order of the dict
RECURSIVE Ascending(_, _, _)
Ascending(from, to, skip) ==
    IF from > to THEN <<>>
    ELSE (IF from = skip THEN <<>> ELSE <<from>>) \o Ascending(from + 1, to, skip)

OtherServers(b) == Ascending(1, NumBankServers, b)

\* _start_bully_election, the loop over the higher servers: the index of the
\* first one whose response says alive (the loop breaks there), 0 if none.
RECURSIVE FirstAnswer(_, _, _)
FirstAnswer(st, targets, i) ==
    IF i > Len(targets) THEN 0
    ELSE IF SaysAlive(Response(st, targets[i], "election_request")) THEN i
    ELSE FirstAnswer(Deliver(st, targets[i]), targets, i + 1)

\* _start_bully_election(initiator) on server b, from the receivers' state st:
\* the election requests, then `if not has_answer:` the server makes itself
\* leader and _announce_leadership sends to every other server.
ElectionResult(st, b) ==
    LET higher == HigherServers(b)
        k == FirstAnswer(st, higher, 1)
        asked == IF k = 0 THEN higher ELSE SubSeq(higher, 1, k)
        st1 == DeliverAll(st, asked)
    IN IF k # 0
       THEN [st |-> st1, won |-> FALSE]
       ELSE [st |-> DeliverAll(st1, OtherServers(b)), won |-> TRUE]

Receivers == [clk |-> logical_clock, lis |-> bk_listening]

WithinBankBound(st) == \A b \in BankServers : st.clk[b] <= MaxBankClock

\* The election of server b from the receivers' state st, as one step.
RunElection(st, b) ==
    LET r == ElectionResult(st, b)
    IN /\ WithinBankBound(r.st)
       /\ logical_clock' = r.st.clk
       /\ bk_listening' = r.st.lis
       /\ bk_is_leader' = [bk_is_leader EXCEPT ![b] = r.won \/ @]
       /\ current_leader' = [current_leader EXCEPT ![b] = IF r.won THEN b ELSE NoServer]

\* After an iteration of `while self.is_alive:` the monitor sleeps again or ends.
MonitorLoop(b) == bk_mon' = [bk_mon EXCEPT ![b] = IF bk_alive[b] THEN "sleep" ELSE "done"]

\* _monitor_leader wakes from time.sleep(2) with current_leader None:
\* self._start_bully_election(self.server_id)
MonitorElects(b) ==
    /\ bk_mon[b] = "sleep"
    /\ current_leader[b] = NoServer
    /\ RunElection(Receivers, b)
    /\ MonitorLoop(b)
    /\ UNCHANGED <<bk_alive, bk_accounts, transaction_log>>
    /\ bk_reply' = NoResult
    /\ BkFrame

\* _monitor_leader wakes with a current_leader: the heartbeat request, and
\* `if not response:` current_leader = None and the election.
MonitorHeartbeat(b) ==
    /\ bk_mon[b] = "sleep"
    /\ current_leader[b] # NoServer
    /\ LET l == current_leader[b]
           st == Deliver(Receivers, l)
       IN IF Response(Receivers, l, "heartbeat") = NoReply
          THEN RunElection(st, b)
          ELSE /\ WithinBankBound(st)
               /\ logical_clock' = st.clk
               /\ bk_listening' = st.lis
               /\ UNCHANGED <<bk_is_leader, current_leader>>
    /\ MonitorLoop(b)
    /\ UNCHANGED <<bk_alive, bk_accounts, transaction_log>>
    /\ bk_reply' = NoResult
    /\ BkFrame

\* simulate_banking_system(): bank_servers[1]._start_bully_election(1), a direct
\* call on the caller's thread.
DirectElection(b) ==
    /\ RunElection(Receivers, b)
    /\ UNCHANGED <<bk_alive, bk_accounts, transaction_log, bk_mon>>
    /\ bk_reply' = NoResult
    /\ BkFrame

\* simulate_banking_system(): bank_servers[leader].is_alive = False
BankCrash(b) ==
    /\ bk_alive[b]
    /\ bk_alive' = [bk_alive EXCEPT ![b] = FALSE]
    /\ UNCHANGED <<bk_listening, bk_is_leader, current_leader, logical_clock,
                   bk_accounts, transaction_log, bk_mon>>
    /\ bk_reply' = NoResult
    /\ BkFrame

\* self.accounts[acc] += amount on a defaultdict(float)
Credit(acc, a, amount) ==
    [x \in (DOMAIN acc) \cup {a} |-> IF x = a THEN Get(acc, a) + amount ELSE acc[x]]

\* The transaction branch of _process_request on server b with request_time rt.
Transact(b, rt, a, amount) ==
    IF ~bk_is_leader[b]
    THEN /\ bk_reply' = Result("Not leader", NoServer)
         /\ UNCHANGED <<bk_accounts, transaction_log>>
    ELSE /\ Admitted < MaxBankTx
         /\ bk_accounts' = [bk_accounts EXCEPT ![b] = Credit(@, a, amount)]
         /\ transaction_log' = [transaction_log EXCEPT ![b] =
                Append(@, [timestamp |-> rt, account |-> a, amount |-> amount,
                           server |-> b])]
         /\ bk_reply' = Result("success", NoServer)

\* A 'transaction' request of a client arrives at server b over the socket and
\* its handler runs _process_request to the end.
ClientTransaction(b, a, amount) ==
    /\ bk_listening[b]
    /\ LET st == Deliver(Receivers, b)
       IN /\ WithinBankBound(st)
          /\ logical_clock' = st.clk
          /\ bk_listening' = st.lis
          /\ Transact(b, st.clk[b], a, amount)
    /\ UNCHANGED <<bk_alive, bk_is_leader, current_leader, bk_mon>>
    /\ BkFrame

\* A request of another type that starts no election arrives at server b: the
\* clock advances and the response is ReplyTo(type).
ClientRequest(b, type) ==
    /\ bk_listening[b]
    /\ LET st == Deliver(Receivers, b)
       IN /\ WithinBankBound(st)
          /\ logical_clock' = st.clk
          /\ bk_listening' = st.lis
    /\ UNCHANGED <<bk_alive, bk_is_leader, current_leader, bk_mon, bk_accounts,
                   transaction_log>>
    /\ bk_reply' = NoResult
    /\ BkFrame

\* A client's 'election' request: the handler calls
\* self._start_bully_election(request.get('initiator', self.server_id)).
ClientElection(b) ==
    /\ bk_listening[b]
    /\ RunElection(Deliver(Receivers, b), b)
    /\ UNCHANGED <<bk_alive, bk_accounts, transaction_log, bk_mon>>
    /\ bk_reply' = NoResult
    /\ BkFrame

\* Mutant: perform_transaction hands every call to _process_request.
PerformTransactionNoCheck(b, a, amount) ==
    /\ logical_clock[b] < MaxBankClock
    /\ logical_clock' = [logical_clock EXCEPT ![b] = TickClock(@)]
    /\ Transact(b, logical_clock'[b], a, amount)
    /\ UNCHANGED <<bk_alive, bk_listening, bk_is_leader, current_leader, bk_mon>>
    /\ BkFrame

\* BankingServer.perform_transaction(account, amount), a direct call
PerformTransaction(b, a, amount) ==
    /\ IF ~bk_is_leader[b]
       THEN /\ bk_reply' = Result(NotALeader, current_leader[b])
            /\ UNCHANGED <<logical_clock, bk_accounts, transaction_log>>
       ELSE /\ logical_clock[b] < MaxBankClock
            /\ logical_clock' = [logical_clock EXCEPT ![b] = TickClock(@)]
            /\ Transact(b, logical_clock'[b], a, amount)
    /\ UNCHANGED <<bk_alive, bk_listening, bk_is_leader, current_leader, bk_mon>>
    /\ BkFrame

RequestTypes == {"heartbeat", "election_request", "leader_announcement"}

BkNext ==
    \/ \E b \in BankServers : MonitorElects(b)
    \/ \E b \in BankServers : MonitorHeartbeat(b)
    \/ \E b \in BankServers : DirectElection(b)
    \/ \E b \in BankServers : BankCrash(b)
    \/ \E b \in BankServers, a \in BankAccounts, m \in BankAmounts :
          ClientTransaction(b, a, m)
    \/ \E b \in BankServers, ty \in RequestTypes : ClientRequest(b, ty)
    \/ \E b \in BankServers : ClientElection(b)
    \/ \E b \in BankServers, a \in BankAccounts, m \in BankAmounts :
          PerformTransaction(b, a, m)

(***************************************************************************)
(* nagoba/Q7_Bully_Election_Algorithm/main.py: BullySystem                 *)
(***************************************************************************)

\* system = BullySystem([1, 2, 3, 4, 5])
NumBullyNodes == 5

BullyNodes == 1..NumBullyNodes

NoBullyCall == [op |-> "none", id |-> 0]

\* BullySystem.__init__
BsFresh ==
    /\ bs_alive = [n \in BullyNodes |-> TRUE]
    /\ coordinator = SetMax(BullyNodes)
    /\ bs_call = NoBullyCall

\* higher_nodes, in the order of self.nodes (ascending ids)
HigherAlive(alv, starter_id) == {n \in BullyNodes : n > starter_id /\ alv[n]}

\* Mutant: the starter takes over without asking the higher nodes.
StartElectionNoCascade(alv, starter_id) == starter_id

\* BullySystem.start_election: the coordinator the call leaves behind. The
\* first alive higher node runs its own election and the call returns.
RECURSIVE StartElection(_, _)
StartElection(alv, starter_id) ==
    IF HigherAlive(alv, starter_id) = {}
    THEN starter_id
    ELSE StartElection(alv, SetMin(HigherAlive(alv, starter_id)))

\* BullySystem.fail_node
FailNode(nid) ==
    /\ bs_alive' = [bs_alive EXCEPT ![nid] = FALSE]
    /\ bs_call' = [op |-> "fail_node", id |-> nid]
    /\ UNCHANGED coordinator
    /\ BsFrame

\* BullySystem.start_election, called from outside
BsStartElection(starter_id) ==
    /\ coordinator' = StartElection(bs_alive, starter_id)
    /\ bs_call' = [op |-> "start_election", id |-> starter_id]
    /\ UNCHANGED bs_alive
    /\ BsFrame

BsNext ==
    \/ \E nid \in BullyNodes : FailNode(nid)
    \/ \E starter_id \in BullyNodes : BsStartElection(starter_id)

(***************************************************************************)
(* anigay/Q7/bully_algorithm.py: Node                                      *)
(***************************************************************************)

\* nodes = [Node(i, None) for i in range(1, 6)]
NumNodes == 5

Nodes == 1..NumNodes

\* Bound on the start_election calls running at the same time.
MaxNodeThreads == 3

\* Bound on the crash, recover and start_election calls made from outside.
MaxNodeCalls == 4

\* Node.__init__ for every node; no thread runs yet.
NdFresh ==
    /\ nd_alive = [n \in Nodes |-> TRUE]
    /\ is_coordinator = [n \in Nodes |-> FALSE]
    /\ nd_threads = EmptyBag
    /\ nd_settling = FALSE
    /\ nd_calls = 0

\* A call from outside, counted.
NdCall ==
    /\ nd_calls < MaxNodeCalls
    /\ nd_calls' = nd_calls + 1

\* A start_election call that has just been entered on node n.
Entered(n) == [node |-> n, pc |-> "reset", higher |-> {}, sent |-> {}]

NdRunning == BagToSet(nd_threads)

NdReplace(old, new) == (nd_threads (-) SetToBag({old})) (+) new

NdRoom == BagCardinality(nd_threads) < MaxNodeThreads

\* Node.crash
NdCrash(n) ==
    /\ NdCall
    /\ nd_alive' = [nd_alive EXCEPT ![n] = FALSE]
    /\ is_coordinator' = [is_coordinator EXCEPT ![n] = FALSE]
    /\ nd_settling' = FALSE
    /\ UNCHANGED nd_threads
    /\ NdFrame

\* Node.recover
NdRecover(n) ==
    /\ NdCall
    /\ nd_alive' = [nd_alive EXCEPT ![n] = TRUE]
    /\ nd_settling' = FALSE
    /\ UNCHANGED <<is_coordinator, nd_threads>>
    /\ NdFrame

\* node.start_election() called from outside, as simulate_bully_election does
NdStartElection(n) ==
    /\ NdCall
    /\ NdRoom
    /\ nd_threads' = nd_threads (+) SetToBag({Entered(n)})
    /\ nd_settling' = nd_alive[n]
    /\ UNCHANGED <<nd_alive, is_coordinator>>
    /\ NdFrame

\* start_election: with self.lock: self.is_coordinator = False
NdReset(t) ==
    /\ t.pc = "reset"
    /\ is_coordinator' = [is_coordinator EXCEPT ![t.node] = FALSE]
    /\ nd_threads' = NdReplace(t, SetToBag({[t EXCEPT !.pc = "higher"]}))
    /\ UNCHANGED <<nd_alive, nd_settling, nd_calls>>
    /\ NdFrame

\* higher_nodes = [n for n in self.all_nodes if n.node_id > self.node_id and n.is_alive]
NdHigherNodes(n) == {m \in Nodes : m > n /\ nd_alive[m]}

\* start_election: build higher_nodes; with none, become coordinator and
\* announce (_set_coordinator only prints) and return.
NdHigher(t) ==
    /\ t.pc = "higher"
    /\ IF NdHigherNodes(t.node) = {}
       THEN /\ is_coordinator' = [is_coordinator EXCEPT ![t.node] = TRUE]
            /\ nd_threads' = NdReplace(t, EmptyBag)
       ELSE /\ nd_threads' = NdReplace(t, SetToBag({[t EXCEPT !.pc = "send",
                                                     !.higher = NdHigherNodes(t.node)]}))
            /\ UNCHANGED is_coordinator
    /\ UNCHANGED <<nd_alive, nd_settling, nd_calls>>
    /\ NdFrame

\* _receive_election_message: an alive node that is not coordinator starts a
\* thread running its own start_election.
StartsOwnElection(m) == nd_alive[m] /\ ~is_coordinator[m]

\* start_election: node._receive_election_message(self.node_id) for the next
\* node of higher_nodes; after the last one the caller sleeps.
NdSend(t) ==
    /\ t.pc = "send"
    /\ LET m == SetMin(t.higher \ t.sent)
           sent == t.sent \cup {m}
           after == [t EXCEPT !.sent = sent,
                              !.pc = IF sent = t.higher THEN "sleep" ELSE "send"]
       IN  IF StartsOwnElection(m)
           THEN /\ NdRoom
                /\ nd_threads' = NdReplace(t, SetToBag({after}) (+) SetToBag({Entered(m)}))
           ELSE nd_threads' = NdReplace(t, SetToBag({after}))
    /\ UNCHANGED <<nd_alive, is_coordinator, nd_settling, nd_calls>>
    /\ NdFrame

\* time.sleep(1) ends: the sleep is long against the steps of the other
\* threads, so every thread that is not asleep has returned by then.
NdSlept == \A u \in NdRunning : u.pc = "sleep"

\* start_election after the sleep: if no higher node became coordinator,
\* this node wins.
NdWake(t) ==
    /\ t.pc = "sleep"
    /\ NdSlept
    /\ IF \E m \in t.higher : is_coordinator[m]
       THEN UNCHANGED is_coordinator
       ELSE is_coordinator' = [is_coordinator EXCEPT ![t.node] = TRUE]
    /\ nd_threads' = NdReplace(t, EmptyBag)
    /\ UNCHANGED <<nd_alive, nd_settling, nd_calls>>
    /\ NdFrame

NdNext ==
    \/ \E n \in Nodes : NdCrash(n)
    \/ \E n \in Nodes : NdRecover(n)
    \/ \E n \in Nodes : NdStartElection(n)
    \/ \E t \in NdRunning : NdReset(t)
    \/ \E t \in NdRunning : NdHigher(t)
    \/ \E t \in NdRunning : NdSend(t)
    \/ \E t \in NdRunning : NdWake(t)

(***************************************************************************)
(* nagoba/Q8_Ring_Election_Algorithm/main.py: RingElectionSystem           *)
(***************************************************************************)

NumProcesses == 5

\* The process ids; processes[i] has id i + 1.
Processes == 1..NumProcesses

NoRingCall == [op |-> "none", id |-> 0, msg |-> <<>>, returned |-> TRUE]

\* RingElectionSystem.__init__
RgFresh ==
    /\ rg_alive = [p \in Processes |-> TRUE]
    /\ rg_coordinator = SetMax(Processes)
    /\ rg_call = NoRingCall

\* (i + 1) % self.n, on ids
RingSucc(p) == (p % NumProcesses) + 1

\* Mutant: a failed process is not skipped.
NextAny(alv, p) == p

\* get_next_alive: while not self.processes[i].alive: i = (i + 1) % self.n
RECURSIVE NextAlive(_, _)
NextAlive(alv, p) == IF alv[p] THEN p ELSE NextAlive(alv, RingSucc(p))

\* get_next_alive(index)
GetNextAlive(alv, p) == NextAlive(alv, RingSucc(p))

\* next_pid in election_msg
InMsg(p, msg) == \E k \in DOMAIN msg : msg[k] = p

\* start_election, the loop that passes the message clockwise: the message
\* when the loop breaks.
RECURSIVE ElectionMsg(_, _, _)
ElectionMsg(alv, msg, current) ==
    LET next == GetNextAlive(alv, current)
    IN IF InMsg(next, msg) THEN msg ELSE ElectionMsg(alv, Append(msg, next), next)

\* max(election_msg)
MaxOfMsg(msg) == SetMax({msg[k] : k \in DOMAIN msg})

\* RingElectionSystem.fail_process
FailProcess(pid) ==
    /\ rg_call.returned
    /\ rg_alive' = [rg_alive EXCEPT ![pid] = FALSE]
    /\ rg_call' = [op |-> "fail_process", id |-> pid, msg |-> <<>>, returned |-> TRUE]
    /\ UNCHANGED rg_coordinator
    /\ RgFrame

\* RingElectionSystem.start_election. With no process alive get_next_alive
\* never leaves its loop and the call does not return.
RgStartElection(starter_id) ==
    /\ rg_call.returned
    /\ IF \A p \in Processes : ~rg_alive[p]
       THEN /\ rg_call' = [op |-> "start_election", id |-> starter_id,
                           msg |-> <<starter_id>>, returned |-> FALSE]
            /\ UNCHANGED rg_coordinator
       ELSE LET msg == ElectionMsg(rg_alive, <<starter_id>>, starter_id)
            IN /\ rg_coordinator' = MaxOfMsg(msg)
               /\ rg_call' = [op |-> "start_election", id |-> starter_id,
                              msg |-> msg, returned |-> TRUE]
    /\ UNCHANGED rg_alive
    /\ RgFrame

RgNext ==
    \/ \E pid \in Processes : FailProcess(pid)
    \/ \E starter_id \in Processes : RgStartElection(starter_id)

(***************************************************************************)
(* anigay/Q8/ring_election.py: RingNode                                    *)
(***************************************************************************)

NumRingNodes == 5

\* The node ids, range(num_nodes)
RingNodes == 0..(NumRingNodes - 1)

RnFresh ==
    /\ rn_alive = [n \in RingNodes |-> TRUE]
    /\ rn_coordinator = [n \in RingNodes |-> FALSE]
    /\ rn_threads = EmptyBag
    /\ rn_settling = FALSE
    /\ rn_quiet = FALSE
    /\ rn_calls = 0

\* Bounds: the _receive_message threads running at once and the calls made
\* from outside.
MaxRingThreads == 2

MaxRingCalls == 3

\* A call from outside, counted.
RnCall ==
    /\ rn_calls < MaxRingCalls
    /\ rn_calls' = rn_calls + 1

RnRunning == BagToSet(rn_threads)

RnRoom == BagCardinality(rn_threads) < MaxRingThreads

\* A _receive_message(message_list) thread that has just been started on node n.
Received(n, message_list) == [node |-> n, msg |-> message_list, pc |-> "recv", i |-> 0]

\* (next_id + 1) % self.num_nodes
RnSucc(n) == (n + 1) % NumRingNodes

\* _pass_message, the for loop: the first alive node among num_nodes
\* candidates from next_id on; -1 when the loop ends without break.
RECURSIVE FirstAlive(_, _)
FirstAlive(next_id, tries) ==
    IF tries = 0 THEN -1
    ELSE IF rn_alive[next_id] THEN next_id
    ELSE FirstAlive(RnSucc(next_id), tries - 1)

\* _pass_message(message_list) on node n: the bag of threads it starts.
PassMessage(n, message_list) ==
    LET next_id == FirstAlive(RnSucc(n), NumRingNodes)
    IN IF next_id = -1 THEN EmptyBag ELSE SetToBag({Received(next_id, message_list)})

\* RingNode.crash
RnCrash(n) ==
    /\ RnCall
    /\ rn_alive' = [rn_alive EXCEPT ![n] = FALSE]
    /\ rn_coordinator' = [rn_coordinator EXCEPT ![n] = FALSE]
    /\ rn_settling' = FALSE
    /\ rn_quiet' = FALSE
    /\ UNCHANGED rn_threads
    /\ RnFrame

\* RingNode.recover
RnRecover(n) ==
    /\ RnCall
    /\ rn_alive' = [rn_alive EXCEPT ![n] = TRUE]
    /\ rn_quiet' = FALSE
    /\ UNCHANGED <<rn_coordinator, rn_threads, rn_settling>>
    /\ RnFrame

\* RingNode.start_election, called from outside: a crashed node returns at
\* once, an alive one passes the message [node_id].
RnStartElection(n) ==
    /\ RnCall
    /\ IF rn_alive[n]
       THEN /\ RnRoom
            /\ rn_threads' = rn_threads (+) PassMessage(n, <<n>>)
            /\ rn_settling' = TRUE
            /\ rn_quiet' = (rn_threads = EmptyBag)
       ELSE UNCHANGED <<rn_threads, rn_settling, rn_quiet>>
    /\ UNCHANGED <<rn_alive, rn_coordinator>>
    /\ RnFrame

\* _receive_message: if not self.is_alive: return; then time.sleep(0.1)
RnReceive(t) ==
    /\ t.pc = "recv"
    /\ rn_threads' = (rn_threads (-) SetToBag({t})) (+)
                        (IF rn_alive[t.node] THEN SetToBag({[t EXCEPT !.pc = "sleep"]})
                         ELSE EmptyBag)
    /\ UNCHANGED <<rn_alive, rn_coordinator, rn_settling, rn_quiet, rn_calls>>
    /\ RnFrame

\* Mutant: the node that started the election becomes coordinator.
CoordinatorFirst(message_list) == message_list[1]

\* coordinator_id = max(message_list)
CoordinatorId(message_list) == MaxOfMsg(message_list)

\* _receive_message after the sleep: the message is back at its first node,
\* which announces the coordinator, or the node appends its id (if it is not
\* in the list) and passes the message on.
RnHandle(t) ==
    /\ t.pc = "sleep"
    /\ IF t.msg[1] = t.node
       THEN rn_threads' = (rn_threads (-) SetToBag({t})) (+)
                             SetToBag({[t EXCEPT !.pc = "announce", !.i = 0]})
       ELSE LET new_list == IF InMsg(t.node, t.msg) THEN t.msg
                            ELSE Append(t.msg, t.node)
            IN rn_threads' = (rn_threads (-) SetToBag({t})) (+)
                                PassMessage(t.node, new_list)
    /\ UNCHANGED <<rn_alive, rn_coordinator, rn_settling, rn_quiet, rn_calls>>
    /\ RnFrame

\* _announce_coordinator, one node of the loop:
\* if node.is_alive: node.is_coordinator = (node.node_id == coord_id)
RnAnnounce(t) ==
    /\ t.pc = "announce"
    /\ rn_coordinator' = IF rn_alive[t.i]
                         THEN [rn_coordinator EXCEPT ![t.i] = (t.i = CoordinatorId(t.msg))]
                         ELSE rn_coordinator
    /\ rn_threads' = (rn_threads (-) SetToBag({t})) (+)
                        (IF t.i < NumRingNodes - 1
                         THEN SetToBag({[t EXCEPT !.i = t.i + 1]})
                         ELSE EmptyBag)
    /\ UNCHANGED <<rn_alive, rn_settling, rn_quiet, rn_calls>>
    /\ RnFrame

RnNext ==
    \/ \E n \in RingNodes : RnCrash(n)
    \/ \E n \in RingNodes : RnRecover(n)
    \/ \E n \in RingNodes : RnStartElection(n)
    \/ \E t \in RnRunning : RnReceive(t)
    \/ \E t \in RnRunning : RnHandle(t)
    \/ \E t \in RnRunning : RnAnnounce(t)

(***************************************************************************)
(* Q6/vector_clocks.py: VectorClock and DistributedProcess                 *)
(* (nagoba/Q6 Node updates its vector by the same rules, one call at a     *)
(* time)                                                                   *)
(***************************************************************************)

\* simulate_vector_clocks(): processes 0, 1, 2
NumVcProcesses == 3

VcProcesses == 0..(NumVcProcesses - 1)

\* Bound on the local, send and receive events explored.
MaxVcEvents == 5

VcFresh ==
    /\ vc = [p \in VcProcesses |-> [i \in VcProcesses |-> 0]]
    /\ vc_msgs = {}
    /\ vc_sending = {}
    /\ vc_events = 0

\* An event, counted.
VcEvent ==
    /\ vc_events < MaxVcEvents
    /\ vc_events' = vc_events + 1

\* VectorClock.increment: self.clock[self.process_id] += 1
Increment(vclock, process_id) == [vclock EXCEPT ![process_id] = @ + 1]

\* Mutant: the receiver's own entry is not incremented after the merge.
UpdateMergeOnly(vclock, process_id, received_clock) ==
    [i \in DOMAIN vclock |-> Max(vclock[i], received_clock[i])]

\* VectorClock.update: element-wise max, then self.clock[self.process_id] += 1
Update(vclock, process_id, received_clock) ==
    Increment([i \in DOMAIN vclock |-> Max(vclock[i], received_clock[i])], process_id)

\* VectorClock.__lt__, the loop from index i on with the flag less
RECURSIVE LtLoop(_, _, _, _)
LtLoop(vclock, other, i, less) ==
    IF i = NumVcProcesses THEN less
    ELSE IF vclock[i] > other[i] THEN FALSE
    ELSE LtLoop(vclock, other, i + 1, less \/ vclock[i] < other[i])

VcLess(vclock, other) == LtLoop(vclock, other, 0, FALSE)

\* The processes whose own thread is inside send_message.
VcBusy == {m.from : m \in vc_sending}

\* DistributedProcess.local_event
LocalEvent(p) ==
    /\ p \notin VcBusy
    /\ VcEvent
    /\ vc' = [vc EXCEPT ![p] = Increment(vc[p], p)]
    /\ UNCHANGED <<vc_msgs, vc_sending>>
    /\ VcFrame

\* DistributedProcess.send_message, the part under the lock
SendMessage(p, target_process) ==
    /\ p \notin VcBusy
    /\ target_process # p
    /\ VcEvent
    /\ vc' = [vc EXCEPT ![p] = Increment(vc[p], p)]
    /\ vc_sending' = vc_sending \cup {[from |-> p, to |-> target_process]}
    /\ UNCHANGED vc_msgs
    /\ VcFrame

\* send_message, after the lock is released: return self.vc.copy()
SendReturn(m) ==
    /\ vc_sending' = vc_sending \ {m}
    /\ vc_msgs' = vc_msgs \cup {[to |-> m.to, vc |-> vc[m.from]]}
    /\ UNCHANGED <<vc, vc_events>>
    /\ VcFrame

\* DistributedProcess.receive_message(message, sender_vc) on process msg.to
VcReceiveMessage(msg) ==
    /\ VcEvent
    /\ vc' = [vc EXCEPT ![msg.to] = Update(vc[msg.to], msg.to, msg.vc)]
    /\ vc_msgs' = vc_msgs \ {msg}
    /\ UNCHANGED vc_sending
    /\ VcFrame

VcNext ==
    \/ \E p \in VcProcesses : LocalEvent(p)
    \/ \E p, t \in VcProcesses : SendMessage(p, t)
    \/ \E m \in vc_sending : SendReturn(m)
    \/ \E msg \in vc_msgs : VcReceiveMessage(msg)

(***************************************************************************)
(* Q9/kv_store.py: KVReplica and DistributedKVStore                        *)
(***************************************************************************)

\* DistributedKVStore(3): replicas 0, 1, 2
NumReplicas == 3

Replicas == 0..(NumReplicas - 1)

\* The keys and values of simulate_kv_store (scenarios 2 and 3).
KvKeys == {"user:2", "counter"}

KvValues == {100, 200}

\* Bound on the writes issued.
MaxKvWrites == 2

\* The last apply_update call: none yet.
NoApply == [op |-> "none", r |-> 0, key |-> "", value |-> 0, version |-> 0, ret |-> FALSE]

KvFresh ==
    /\ kv_data = [r \in Replicas |-> << >>]
    /\ kv_version = [r \in Replicas |-> << >>]
    /\ kv_threads = EmptyBag
    /\ kv_ret = NoApply
    /\ kv_writes = 0

KvRunning == BagToSet(kv_threads)

\* d[key] = value on a dict
KvPut(d, key, value) == [k \in DOMAIN d \cup {key} |-> IF k = key THEN value ELSE d[k]]

\* KVReplica.write, the part under the lock, on replica r; the call goes on
\* as a thread record that has still to read self.version[key] for its
\* return value.
KvWrite(r, key, value) ==
    /\ kv_writes < MaxKvWrites
    /\ kv_writes' = kv_writes + 1
    /\ kv_data' = [kv_data EXCEPT ![r] = KvPut(@, key, value)]
    /\ kv_version' = [kv_version EXCEPT ![r] = KvPut(@, key, Get(@, key) + 1)]
    /\ kv_threads' = kv_threads (+) SetToBag({[pc |-> "return", rid |-> r, key |-> key,
                                                value |-> value, version |-> 0, i |-> 0]})
    /\ UNCHANGED kv_ret
    /\ KvFrame

\* write: return self.version[key], read after the lock was released;
\* write_eventual_consistency keeps it as version and starts propagate.
KvWriteReturn(t) ==
    /\ t.pc = "return"
    /\ kv_threads' = (kv_threads (-) SetToBag({t})) (+)
                        SetToBag({[t EXCEPT !.pc = "propagate",
                                            !.version = Get(kv_version[t.rid], t.key)]})
    /\ UNCHANGED <<kv_data, kv_version, kv_ret, kv_writes>>
    /\ KvFrame

\* Mutant: an update of the stored version is applied again.
ApplyUpdateReplay(data, vers, key, value, version) ==
    IF version >= Get(vers, key)
    THEN [data |-> KvPut(data, key, value), version |-> KvPut(vers, key, version), ret |-> TRUE]
    ELSE [data |-> data, version |-> vers, ret |-> FALSE]

\* KVReplica.apply_update on a replica with the dicts data and vers: the new
\* dicts and the value returned.
ApplyUpdate(data, vers, key, value, version) ==
    IF version > Get(vers, key)
    THEN [data |-> KvPut(data, key, value), version |-> KvPut(vers, key, version), ret |-> TRUE]
    ELSE [data |-> data, version |-> vers, ret |-> FALSE]

\* propagate(), one replica of the loop:
\* if rid != replica_id: replica.apply_update(key, value, version)
KvPropagate(t) ==
    /\ t.pc = "propagate"
    /\ IF t.i # t.rid
       THEN LET a == ApplyUpdate(kv_data[t.i], kv_version[t.i], t.key, t.value, t.version)
            IN /\ kv_data' = [kv_data EXCEPT ![t.i] = a.data]
               /\ kv_version' = [kv_version EXCEPT ![t.i] = a.version]
               /\ kv_ret' = [op |-> "apply_update", r |-> t.i, key |-> t.key,
                             value |-> t.value, version |-> t.version, ret |-> a.ret]
       ELSE UNCHANGED <<kv_data, kv_version, kv_ret>>
    /\ kv_threads' = (kv_threads (-) SetToBag({t})) (+)
                        (IF t.i < NumReplicas - 1
                         THEN SetToBag({[t EXCEPT !.i = t.i + 1]})
                         ELSE EmptyBag)
    /\ UNCHANGED kv_writes
    /\ KvFrame

KvNext ==
    \/ \E r \in Replicas, k \in KvKeys, v \in KvValues : KvWrite(r, k, v)
    \/ \E t \in KvRunning : KvWriteReturn(t)
    \/ \E t \in KvRunning : KvPropagate(t)

(***************************************************************************)
(* nagoba/Q9_Key_Value_Store_Consistency/main.py: ReplicationSystem        *)
(***************************************************************************)

\* The keys and values of demo(): the eventual updates of x and y.
RsKeys == {"x", "y"}

RsValues == {"200", "600"}

\* Bound on the eventual updates issued.
MaxRsWrites == 2

RsFresh ==
    /\ rs_store = [r \in Replicas |-> << >>]
    /\ rs_timers = EmptyBag
    /\ rs_writes = 0

RsRunning == BagToSet(rs_timers)

\* ReplicationSystem.eventual_update: primary.write(key, value), then a Timer
\* for _propagate_from(primary_idx, key, value)
EventualUpdate(primary_idx, key, value) ==
    /\ rs_writes < MaxRsWrites
    /\ rs_writes' = rs_writes + 1
    /\ rs_store' = [rs_store EXCEPT ![primary_idx] = KvPut(@, key, value)]
    /\ rs_timers' = rs_timers (+) SetToBag({[primary_idx |-> primary_idx, key |-> key,
                                              value |-> value, i |-> 0]})
    /\ RsFrame

\* _propagate_from, one replica of the loop:
\* if i == primary_idx: continue; r.write(key, value)
PropagateFrom(t) ==
    /\ rs_store' = IF t.i = t.primary_idx THEN rs_store
                   ELSE [rs_store EXCEPT ![t.i] = KvPut(@, t.key, t.value)]
    /\ rs_timers' = (rs_timers (-) SetToBag({t})) (+)
                       (IF t.i < NumReplicas - 1
                        THEN SetToBag({[t EXCEPT !.i = t.i + 1]})
                        ELSE EmptyBag)
    /\ UNCHANGED rs_writes
    /\ RsFrame

RsNext ==
    \/ \E r \in Replicas, k \in RsKeys, v \in RsValues : EventualUpdate(r, k, v)
    \/ \E t \in RsRunning : PropagateFrom(t)

(***************************************************************************)
(* One node's clock under concurrent callers: Server.tick and              *)
(* Server.apply_transaction (nagoba Q1), BankingServer._process_request    *)
(***************************************************************************)

\* Bound on the threads calling into the same node.
MaxLockThreads == 3

LockThreads == 1..MaxLockThreads

NoThread == 0

\* the amount of each transaction a handler thread admits
LockAmount == 500

\* The state before the threads make their calls.
LkStart(kind, op, arg) ==
    /\ lk_kind = kind
    /\ lk_clock = 0
    /\ lk_owner = NoThread
    /\ lk_pc = [t \in LockThreads |-> "call"]
    /\ lk_op = op
    /\ lk_arg = arg
    /\ lk_tmp = [t \in LockThreads |-> 0]
    /\ lk_ret = [t \in LockThreads |-> NoKey]
    /\ lk_balance = 0
    /\ lk_seen = [t \in LockThreads |-> 0]
    /\ lk_log = <<>>

LkFresh == LkStart("server", [t \in LockThreads |-> "tick"], [t \in LockThreads |-> 0])

\* Mutant: the lock is not taken.
NoLock(t) == TRUE

\* threading.Lock: acquire succeeds only when no thread holds the lock
CanAcquire(t) == lk_owner = NoThread

\* with self.lock: (entry)
LkAcquire(t) ==
    /\ lk_pc[t] = "call"
    /\ CanAcquire(t)
    /\ lk_owner' = t
    /\ lk_pc' = [lk_pc EXCEPT ![t] = "locked"]
    /\ UNCHANGED <<lk_kind, lk_clock, lk_op, lk_arg, lk_tmp, lk_ret, lk_balance, lk_seen, lk_log>>
    /\ LkFrame

\* the read of self.clock / self.logical_clock in `+= 1` or in max(...)
LkRead(t) ==
    /\ lk_pc[t] = "locked"
    /\ lk_tmp' = [lk_tmp EXCEPT ![t] = lk_clock]
    /\ lk_pc' = [lk_pc EXCEPT ![t] = "read"]
    /\ UNCHANGED <<lk_kind, lk_clock, lk_owner, lk_op, lk_arg, lk_ret, lk_balance, lk_seen, lk_log>>
    /\ LkFrame

\* the store of the new clock value
LkWrite(t) ==
    /\ lk_pc[t] = "read"
    /\ lk_clock' = IF lk_op[t] = "apply"
                   THEN MergeClock(lk_tmp[t], lk_arg[t])
                   ELSE TickClock(lk_tmp[t])
    /\ lk_pc' = [lk_pc EXCEPT ![t] = "written"]
    /\ UNCHANGED <<lk_kind, lk_owner, lk_op, lk_arg, lk_tmp, lk_ret, lk_balance, lk_seen, lk_log>>
    /\ LkFrame

\* return self.clock / request_time = self.logical_clock
LkReturn(t) ==
    /\ lk_pc[t] = "written"
    /\ lk_ret' = [lk_ret EXCEPT ![t] = lk_clock]
    /\ lk_pc' = [lk_pc EXCEPT ![t] = "observed"]
    /\ UNCHANGED <<lk_kind, lk_clock, lk_owner, lk_op, lk_arg, lk_tmp, lk_balance, lk_seen, lk_log>>
    /\ LkFrame

\* with self.lock: (exit)
LkRelease(t) ==
    /\ lk_pc[t] = "observed"
    /\ lk_owner' = NoThread
    /\ lk_pc' = [lk_pc EXCEPT ![t] = IF lk_op[t] = "transaction" THEN "admitted" ELSE "done"]
    /\ UNCHANGED <<lk_kind, lk_clock, lk_op, lk_arg, lk_tmp, lk_ret, lk_balance, lk_seen, lk_log>>
    /\ LkFrame

\* self.accounts[acc] += amount, as the leader: the read of the balance
LkCreditRead(t) ==
    /\ lk_pc[t] = "admitted"
    /\ lk_seen' = [lk_seen EXCEPT ![t] = lk_balance]
    /\ lk_pc' = [lk_pc EXCEPT ![t] = "credit"]
    /\ UNCHANGED <<lk_kind, lk_clock, lk_owner, lk_op, lk_arg, lk_tmp, lk_ret, lk_balance, lk_log>>
    /\ LkFrame

\* self.accounts[acc] += amount: the store of the new balance
LkCreditWrite(t) ==
    /\ lk_pc[t] = "credit"
    /\ lk_balance' = lk_seen[t] + LockAmount
    /\ lk_pc' = [lk_pc EXCEPT ![t] = "credited"]
    /\ UNCHANGED <<lk_kind, lk_clock, lk_owner, lk_op, lk_arg, lk_tmp, lk_ret, lk_seen, lk_log>>
    /\ LkFrame

\* self.transaction_log.append({'timestamp': request_time, ...})
LkAppend(t) ==
    /\ lk_pc[t] = "credited"
    /\ lk_log' = Append(lk_log, lk_ret[t])
    /\ lk_pc' = [lk_pc EXCEPT ![t] = "done"]
    /\ UNCHANGED <<lk_kind, lk_clock, lk_owner, lk_op, lk_arg, lk_tmp, lk_ret, lk_balance, lk_seen>>
    /\ LkFrame

LkNext ==
    \/ \E t \in LockThreads : LkAcquire(t)
    \/ \E t \in LockThreads : LkRead(t)
    \/ \E t \in LockThreads : LkWrite(t)
    \/ \E t \in LockThreads : LkReturn(t)
    \/ \E t \in LockThreads : LkRelease(t)
    \/ \E t \in LockThreads : LkCreditRead(t)
    \/ \E t \in LockThreads : LkCreditWrite(t)
    \/ \E t \in LockThreads : LkAppend(t)

(***************************************************************************)
(* Specifications                                                          *)
(***************************************************************************)

Q1Next ==
    \/ \E t \in Threads : ElRead(t) \/ ElClear(t) \/ ElSet(t)
    \/ \E t \in Servers : MonWake(t) \/ MonSpawn(t)
    \/ \E l \in Servers : SenderCheck(l) \/ SenderBeat(l)
    \/ \E s \in Servers : CrashBegin(s)
    \/ CrashEnd
    \/ MainElection
    \/ MainSpawn
    \/ \E a \in AccountIds, m \in Amounts : StartProcess(a, m)
    \/ PFind
    \/ PSpawn
    \/ PTick
    \/ PApply
    \/ TimePasses


\* The fresh cluster.
Q1Init == prog = "q1" /\ Q1Fresh(0) /\ BkFresh /\ DlFresh /\ BsFresh /\ NdFresh /\ RgFresh /\ RnFresh /\ VcFresh /\ KvFresh /\ RsFresh
    /\ LkFresh

\* The cluster more than HEARTBEAT_TIMEOUT after its construction with no
\* heartbeat delivered: every monitor's timeout test succeeds when it wakes.
Q1InitLate ==
    /\ prog = "q1"
    /\ Q1Fresh(HEARTBEAT_TIMEOUT + 1)
    /\ BkFresh /\ DlFresh /\ BsFresh /\ NdFresh /\ RgFresh /\ RnFresh /\ VcFresh /\ KvFresh /\ RsFresh /\ LkFresh

\* Concurrent elections and crashes: the monitors' elections, main()'s own
\* bully_election calls and crash(), with no heartbeat delivered.
Q1ElNext ==
    \/ \E t \in Threads : ElRead(t) \/ ElClear(t) \/ ElSet(t)
    \/ \E t \in Servers : MonWake(t) \/ MonSpawn(t)
    \/ \E s \in Servers : CrashBegin(s)
    \/ CrashEnd
    \/ MainElection
    \/ MainSpawn

SpecQ1El == Q1InitLate /\ [][Q1ElNext]_vars

\* The main thread's transactions (with the elections process() runs) and
\* crashes, from the fresh cluster, before any monitor has timed out.
Q1TxNext ==
    \/ ElRead(MainThread) \/ ElClear(MainThread) \/ ElSet(MainThread)
    \/ \E s \in Servers : CrashBegin(s)
    \/ CrashEnd
    \/ MainElection
    \/ MainSpawn
    \/ \E a \in AccountIds, m \in Amounts : StartProcess(a, m)
    \/ PFind
    \/ PSpawn
    \/ PTick
    \/ PApply

SpecQ1Tx == Q1Init /\ [][Q1TxNext]_vars

(***************************************************************************)
(* Properties of nagoba/Q1_Banking_System/main.py                          *)
(***************************************************************************)

AliveLeaders == {s \in Servers : alive[s] /\ is_leader[s]}

\* C1: in every reachable state, under any interleaving of crash() and of the
\* bully_election() calls of the monitors and of the main thread, at most one
\* server with alive = True has is_leader = True.
C1_AtMostOneAliveLeader == Cardinality(AliveLeaders) <= 1

\* C1 witness: an alive leader stands while a server has crashed and two
\* threads are inside bully_election, one of them about to set its leader.
C1_Witness ==
    /\ Cardinality(AliveLeaders) = 1
    /\ \E d \in Servers : ~alive[d]
    /\ Cardinality(Electing) = 2
    /\ \E t \in Threads : pc[t] = "el_set"

ProcessDone == pc[MainThread] = "idle" /\ p_result = "ok"

\* C5: after every completed process() call, all servers that are alive hold
\* identical account balances.
C5_AliveReplicasAgree ==
    ProcessDone =>
        \A s1, s2 \in Servers : alive[s1] /\ alive[s2] => accounts[s1] = accounts[s2]

\* C5 witness: two transactions completed, two servers alive and in agreement,
\* and a crashed server left behind with other balances.
C5_Witness ==
    /\ ProcessDone
    /\ ntx = 2
    /\ \E s1, s2 \in Servers : s1 # s2 /\ alive[s1] /\ alive[s2]
    /\ \E d, s \in Servers : ~alive[d] /\ alive[s] /\ accounts[d] # accounts[s]

\* C7: process(account, amount) with a leader: the order key is the leader's
\* tick() (1 for the first operation of a fresh cluster), every server alive
\* during the call applied that key, its balance of `account` is the balance
\* before the call plus `amount`, and no other account changed.
C7_ProcessAppliesOnce ==
    /\ pc[MainThread] = "p_apply" /\ p_i = 1 => p_leader_time = clock[p_leader]
    /\ pc[MainThread] = "p_apply" /\ ntx = 1 => p_leader_time = 1
    /\ ProcessDone =>
          \A s \in Servers : alive[s] =>
              /\ hw[s] = p_leader_time
              /\ Get(accounts[s], p_account) = Get(p_pre[s], p_account) + p_amount
              /\ \A a \in AccountIds \ {p_account} :
                    Get(accounts[s], a) = Get(p_pre[s], a)

\* C7 witness: the second transaction completed on account B with a server down.
C7_Witness ==
    /\ ProcessDone
    /\ ntx = 2
    /\ p_account = "B"
    /\ \E s \in Servers : alive[s] /\ "B" \in DOMAIN accounts[s] /\ "B" \notin DOMAIN p_pre[s]
    /\ \E d \in Servers : ~alive[d]

\* process() is running on the main thread.
ProcessRunning ==
    \/ pc[MainThread] \in {"p_find", "p_tick", "p_apply"}
    \/ pc[MainThread] \in {"el_read", "el_clear", "el_set", "el_ret"}
          /\ caller[MainThread] = "process"

\* C14: a process() call made when every server is dead changes no server's
\* clock or accounts at any of its steps and ends in a failure raised to the
\* caller.
C14_AllDeadAdmitsNothing ==
    [][p_dead /\ ProcessRunning =>
          /\ clock' = clock
          /\ accounts' = accounts
          /\ pc'[MainThread] = "idle" => p_result' = "error"]_vars

\* C14 witness: the second process() call was made with every server dead
\* and has failed.
C14_Witness ==
    /\ p_dead
    /\ ntx = 2
    /\ pc[MainThread] = "idle"
    /\ p_result = "error"
    /\ \E s \in Servers : accounts[s] # [a \in {"A"} |-> 1000]

\* C26: the order keys of successively admitted transactions are strictly
\* increasing over the whole run, also across leader changes: the key a
\* leader's tick() issues exceeds every key any server has applied before.
C26_OrderKeysIncrease ==
    [][pc[MainThread] = "p_tick" /\ pc'[MainThread] = "p_apply" =>
          \A s \in Servers : p_leader_time' > hw[s]]_vars

\* C26 witness: server 3 applied the first transaction and crashed, and
\* another server, as the leader, has issued the key of the second one.
C26_Witness ==
    /\ ntx = 2
    /\ pc[MainThread] = "p_apply"
    /\ ~alive[NumServers] /\ hw[NumServers] >= 1
    /\ p_leader # NumServers
    /\ p_leader_time > hw[NumServers]

\* C27: a crashed server is never the leader: once crash() has returned on a
\* server, is_leader = True implies alive = True, under any interleaving of
\* crash() with concurrent bully_election() calls.
C27_CrashedNeverLeader ==
    \A s \in Servers : is_leader[s] /\ crashing # s => alive[s]

BkInit == prog = "bank" /\ Q1Fresh(0) /\ BkFresh /\ DlFresh /\ BsFresh /\ NdFresh /\ RgFresh /\ RnFresh /\ VcFresh /\ KvFresh /\ RsFresh
    /\ LkFresh

SpecBank == BkInit /\ [][BkNext]_vars

\* The logical clocks of the three programs that keep one: the program is
\* drawn at the start.
ClockInit == prog \in {"q1", "dlog", "bank"} /\ Q1Fresh(0) /\ BkFresh /\ DlFresh /\ BsFresh /\ NdFresh /\ RgFresh /\ RnFresh /\ VcFresh /\ KvFresh /\ RsFresh
    /\ LkFresh

ClockNext ==
    \/ prog = "q1" /\ ServerCallNext
    \/ prog = "dlog" /\ DlNext
    \/ prog = "bank" /\ BkNext

SpecClock == ClockInit /\ [][ClockNext]_vars

\* The logging servers with their CentralLogManager.
LogInit ==
    /\ prog = "dlog"
    /\ Q1Fresh(0) /\ BkFresh /\ DlFresh /\ BsFresh /\ NdFresh /\ RgFresh /\ RnFresh /\ VcFresh /\ KvFresh /\ RsFresh /\ LkFresh

SpecLogs == LogInit /\ [][LogNext]_vars

\* The entries of server d in the merged log, in their order there.
CentralOf(d) == SelectSeq(central_logs, LAMBDA e : e.server_id = d)

\* central_logs holds exactly the entries of the servers' logs, those of one
\* server in the order it logged them.
CentralComplete ==
    /\ Len(central_logs) = Len(AllLogs(NumLogServers))
    /\ \A d \in LogServers : CentralOf(d) = logs[d]

\* central_logs ascends strictly by (lamport_clock, server_id).
CentralAscending ==
    \A i, j \in DOMAIN central_logs : i < j =>
        \/ central_logs[i].lamport_clock < central_logs[j].lamport_clock
        \/ /\ central_logs[i].lamport_clock = central_logs[j].lamport_clock
           /\ central_logs[i].server_id < central_logs[j].server_id

\* C32: after merge_logs, central_logs contains every entry of every server
\* exactly once, the entries of one server in the order it logged them, and
\* ascends strictly by (lamport_clock, server_id), so no two entries tie.
C32_MergedLogsOrdered ==
    [][MergeLogs => (CentralComplete /\ CentralAscending)']_vars

\* C32 witness: a merge has put the entries of servers 1 and 2 in the order
\* 1, 2, 1, 2 with server 3 last, and the logs have not changed since.
C32_Witness ==
    /\ Len(central_logs) = 5 /\ CentralComplete
    /\ [i \in 1..5 |-> central_logs[i].server_id] = <<1, 2, 1, 2, 3>>

\* The logging servers sending each other the stamps of their events.
SpecCausal == LogInit /\ [][CausalNext]_vars

\* C33: whenever logged event A happened before logged event B (B was logged
\* later on the same server, or after its server called receive_message with
\* the Lamport value of A or of an event after A), LC(A) < LC(B).
C33_LamportCausality == \A p \in dl_hb : p[1][2] < p[2][2]

\* C33 witness: server 2 received the stamp of server 1's first event and
\* logged an event afterwards; server 3 received the stamp of server 1's
\* second event and so has the first one in its past as well.
C33_Witness ==
    /\ <<<<1, 1>>, <<2, 3>>>> \in dl_hb
    /\ Len(logs[2]) = 1
    /\ {<<1, 1>>, <<1, 2>>} \subseteq dl_before[3]

\* The two programs whose clocks merge a remote value: direct calls on a
\* Server and on a DistributedServer.
CallsInit ==
    /\ prog \in {"q1", "dlog"}
    /\ Q1Fresh(0) /\ BkFresh /\ DlFresh /\ BsFresh /\ NdFresh /\ RgFresh /\ RnFresh /\ VcFresh /\ KvFresh /\ RsFresh /\ LkFresh

CallsNext ==
    \/ prog = "q1" /\ ServerCallNext
    \/ prog = "dlog" /\ DlNext

SpecCalls == CallsInit /\ [][CallsNext]_vars

(***************************************************************************)
(* Heartbeats and failure detection in nagoba Q1                           *)
(***************************************************************************)

\* A time unit (one second, the period of the senders and of the monitors) is
\* long against the steps of the threads: it passes only when main() has run
\* its initial election, no thread is inside bully_election, every spawned
\* sender has started, and every sender that sleeps has written its
\* heartbeats for this unit.
UnitOver ==
    /\ nmain = MainElections
    /\ Electing = {}
    /\ \A l \in Servers :
          /\ send_chk[l] = 0
          /\ send_slp[l] > 0 =>
                \A s \in Servers : s # l /\ alive[s] => since_heartbeat[s] = 0

\* main() after its initial election, with no client call: the senders, the
\* monitors and their elections, crashes, and the passing of time.
Q1HbNext ==
    \/ \E t \in Threads : ElRead(t) \/ ElClear(t) \/ ElSet(t)
    \/ \E t \in Servers : MonWake(t) \/ MonSpawn(t)
    \/ \E l \in Servers : SenderCheck(l) \/ SenderBeat(l)
    \/ \E s \in Servers : CrashBegin(s)
    \/ CrashEnd
    \/ MainElection
    \/ MainSpawn
    \/ UnitOver /\ TimePasses

\* Every thread that can take a step eventually takes one, and time passes;
\* crashes come from outside and are not forced.
Q1HbFair ==
    /\ \A t \in Threads : WF_vars(ElRead(t) \/ ElClear(t) \/ ElSet(t))
    /\ \A t \in Servers : WF_vars(MonWake(t) \/ MonSpawn(t))
    /\ \A l \in Servers : WF_vars(SenderCheck(l) \/ SenderBeat(l))
    /\ WF_vars(CrashEnd)
    /\ WF_vars(MainElection \/ MainSpawn)
    /\ WF_vars(UnitOver /\ TimePasses)

SpecQ1Hb == Q1Init /\ [][Q1HbNext]_vars /\ Q1HbFair

AliveServers == {s \in Servers : alive[s]}

\* The leader has crashed (or none is left) after the initial election.
LeaderLost ==
    /\ nmain = MainElections
    /\ pc[MainThread] = "idle"
    /\ AliveServers # {}
    /\ AliveLeaders = {}

HighestAliveLeads == AliveServers # {} /\ is_leader[SetMax(AliveServers)]

\* C13: whenever the leader has crashed and some server is alive, the
\* monitors eventually make the highest-id alive server leader (or every
\* server has crashed meanwhile), for the first and every later crash.
C13_CrashedLeaderReplaced == LeaderLost ~> (HighestAliveLeads \/ AliveServers = {})

\* C17: heartbeat_sender writes a follower's last_heartbeat only while the
\* server it sends for is alive and is the leader: no heartbeat is delivered
\* for a server that has crashed or is no longer leader.
C17_HeartbeatsOnlyFromAliveLeader ==
    [][\A l \in Servers :
          SenderBeat(l) /\ (\E s \in Servers : s # l /\ alive[s]) => SenderRuns(l)]_vars

\* heartbeat_monitor of server t calls bully_election in this step.
MonitorStartsElection(t) == MonWake(t) /\ pc'[t] = "el_read"

\* C25: heartbeat_monitor starts an election only when its server is alive,
\* is not the leader and more than HEARTBEAT_TIMEOUT has passed since its
\* last heartbeat; no follower starts one whose last heartbeat arrived within
\* the last HEARTBEAT_INTERVAL.
C25_ElectionOnlyOnTimeout ==
    [][\A t \in Servers :
          MonitorStartsElection(t) =>
             /\ alive[t] /\ ~is_leader[t] /\ TimedOut(t)
             /\ since_heartbeat[t] > HEARTBEAT_INTERVAL]_vars

(***************************************************************************)
(* Properties of Q1/banking_system.py                                      *)
(***************************************************************************)

BankAliveLeaders == {b \in BankServers : bk_alive[b] /\ bk_is_leader[b]}

\* C2: after any sequence of elections (direct, requested or started by
\* _monitor_leader) has run to its end, at most one alive BankingServer has
\* is_leader = True. Every election is one step here, so every state is settled.
C2_AtMostOneAliveBankLeader == Cardinality(BankAliveLeaders) <= 1

\* C11: perform_transaction on a server whose is_leader is False returns an
\* error and leaves that server's accounts, transaction_log and logical_clock
\* as they were.
C11_NonLeaderAdmitsNothing ==
    [][\A b \in BankServers, a \in BankAccounts, m \in BankAmounts :
          PerformTransaction(b, a, m) /\ ~bk_is_leader[b] =>
             /\ bk_reply'.text = NotALeader
             /\ bk_accounts'[b] = bk_accounts[b]
             /\ transaction_log'[b] = transaction_log[b]
             /\ logical_clock'[b] = logical_clock[b]]_vars

\* C11 witness: a non-leader has just rejected a submission while the leader
\* holds an admitted transaction.
C11_Witness ==
    /\ bk_reply.text = NotALeader
    /\ \E l \in BankServers : bk_is_leader[l] /\ Len(transaction_log[l]) = 1
    /\ \E b \in BankServers : ~bk_is_leader[b] /\ logical_clock[b] > 0

\* C12: when an alive server other than N has been elected leader and the
\* alive non-leader N receives perform_transaction, the rejection names an
\* alive elected leader.
C12_RejectionNamesLeader ==
    [][\A n \in BankServers, a \in BankAccounts, m \in BankAmounts :
          /\ PerformTransaction(n, a, m)
          /\ bk_alive[n] /\ ~bk_is_leader[n]
          /\ BankAliveLeaders \ {n} # {}
          => bk_reply'.leader \in BankAliveLeaders]_vars

\* C18: a BankingServer that starts an election while an alive server of
\* strictly higher id is listening does not become leader.
C18_HigherAliveBlocksElection ==
    [][\A b \in BankServers :
          ~bk_is_leader[b] /\ bk_is_leader'[b] =>
             ~\E h \in BankServers : h > b /\ bk_alive[h] /\ bk_listening[h]]_vars

\* C19: when a BankingServer has won an election and announced its
\* leadership, every other alive server that received the announcement
\* records the winner's id as its current_leader.
C19_AnnouncementRecorded ==
    [][\A b \in BankServers :
          ~bk_is_leader[b] /\ bk_is_leader'[b] =>
             \A o \in BankServers :
                o # b /\ bk_alive[o] /\ bk_listening[o] => current_leader'[o] = b]_vars

\* C21: once a BankingServer's is_alive is False the server runs no further
\* election (is_leader and current_leader stay as they are), answers no
\* further request (its logical clock stays) and admits no further
\* transaction (accounts and transaction_log stay).
C21_DeadServerDoesNothing ==
    [][\A b \in BankServers :
          ~bk_alive[b] =>
             /\ bk_is_leader'[b] = bk_is_leader[b]
             /\ current_leader'[b] = current_leader[b]
             /\ logical_clock'[b] = logical_clock[b]
             /\ bk_accounts'[b] = bk_accounts[b]
             /\ transaction_log'[b] = transaction_log[b]]_vars

\* C22: a transaction the leader admitted reaches the followers: a server
\* elected leader after the previous leader crashed holds at least the
\* balances the crashed leader had admitted.
C22_NewLeaderHoldsAdmitted ==
    [][\A b, o \in BankServers :
          /\ bk_alive[b] /\ ~bk_is_leader[b] /\ bk_is_leader'[b]
          /\ bk_is_leader[o] /\ ~bk_alive[o]
          => \A a \in DOMAIN bk_accounts[o] :
                Get(bk_accounts'[b], a) >= bk_accounts[o][a]]_vars

(***************************************************************************)
(* Properties of the logical clocks                                        *)
(***************************************************************************)

\* C6: Server.apply_transaction with an order key not greater than one the
\* server has already applied leaves that server's balances unchanged.
C6_StaleDeliveryIgnored ==
    [][\A s \in Servers, a \in AccountIds, m \in Amounts, k \in OrderKeys :
          ServerApply(s, a, m, k) /\ k <= hw[s] => accounts'[s] = accounts[s]]_vars

\* C8: no logical clock of any node ever decreases: Server.clock under tick and
\* apply_transaction, DistributedServer.lamport_clock under log_event and
\* receive_message, BankingServer.logical_clock under every request.
C8_ClocksNeverDecrease ==
    [][/\ \A s \in Servers : clock'[s] >= clock[s]
       /\ \A d \in LogServers : lamport_clock'[d] >= lamport_clock[d]
       /\ \A b \in BankServers : logical_clock'[b] >= logical_clock[b]]_vars

\* C8 witness: a server whose clock is ahead merged an older order key.
C8_Witness ==
    /\ prog = "q1"
    /\ last_call.op = "apply"
    /\ last_call.ts = 0
    /\ clock[last_call.s] = 3

\* C9: tick() increases the clock by exactly 1 and returns the new value;
\* apply_transaction(ordered_ts) and receive_message(remote_lamport) set the
\* clock to max(old clock, remote value) + 1, and apply_transaction returns it.
C9_TickAndMerge ==
    [][/\ \A s \in Servers :
             ServerTick(s) => clock'[s] = clock[s] + 1 /\ last_call'.ret = clock[s] + 1
       /\ \A s \in Servers, a \in AccountIds, m \in Amounts, k \in OrderKeys :
             ServerApply(s, a, m, k) =>
                /\ clock'[s] = (IF clock[s] >= k THEN clock[s] ELSE k) + 1
                /\ last_call'.ret = clock'[s]
       /\ \A d \in LogServers, r \in 0..MaxLamport :
             ReceiveMessage(d, r) =>
                lamport_clock'[d] = (IF lamport_clock[d] >= r THEN lamport_clock[d] ELSE r) + 1
      ]_vars

\* C9 witness: a merge whose order key was ahead of the local clock, after an
\* earlier call on the same server.
C9_Witness ==
    /\ prog = "q1"
    /\ last_call.op = "apply"
    /\ last_call.ts = 2
    /\ last_call.ret = 3
    /\ hw[last_call.s] = 2
    /\ ncalls = 2

(***************************************************************************)
(* Properties of the bully elections                                       *)
(***************************************************************************)

BsInit ==
    /\ prog = "bully"
    /\ Q1Fresh(0) /\ BkFresh /\ DlFresh /\ BsFresh /\ NdFresh /\ RgFresh /\ RnFresh /\ VcFresh /\ KvFresh /\ RsFresh /\ LkFresh

SpecBully == BsInit /\ [][BsNext]_vars

BsAliveNodes == {n \in BullyNodes : bs_alive[n]}

\* C3: when BullySystem.start_election(starter) returns for an alive starter,
\* the coordinator is the highest id among the alive nodes, whichever nodes
\* have failed and whichever alive node started; a sole survivor elects itself.
C3_HighestAliveWins ==
    bs_call.op = "start_election" /\ bs_alive[bs_call.id]
       => coordinator = SetMax(BsAliveNodes)

\* C3 witness: an election started by the lowest alive node with two of the
\* higher nodes failed, the top one among them.
C3_Witness ==
    /\ bs_call = [op |-> "start_election", id |-> 2]
    /\ BsAliveNodes = {2, 3}
    /\ coordinator = 3

RgInit ==
    /\ prog = "ring"
    /\ Q1Fresh(0) /\ BkFresh /\ DlFresh /\ BsFresh /\ NdFresh /\ RgFresh /\ RnFresh /\ VcFresh /\ KvFresh /\ RsFresh
    /\ LkFresh

SpecRing == RgInit /\ [][RgNext]_vars

RgAliveProcesses == {p \in Processes : rg_alive[p]}

\* The alive processes in ring order, from the starter on.
RingOrder(starter_id) ==
    SelectSeq([k \in 1..NumProcesses |-> ((starter_id + k - 2) % NumProcesses) + 1],
              LAMBDA p : rg_alive[p])

\* C28: RingElectionSystem.start_election(starter) with an alive starter
\* terminates, its message has visited every alive process exactly once in
\* ring order, and coordinator is the highest id among the alive processes.
C28_RingElectsHighestAlive ==
    rg_call.op = "start_election" /\ rg_alive[rg_call.id] =>
       /\ rg_call.returned
       /\ rg_call.msg = RingOrder(rg_call.id)
       /\ rg_coordinator = SetMax(RgAliveProcesses)

\* C28 witness: process 2 started the election with processes 3 and 5 failed;
\* the message went 2, 4, 1 and process 4 is the coordinator.
C28_Witness ==
    /\ rg_call.op = "start_election" /\ rg_call.id = 2
    /\ RgAliveProcesses = {1, 2, 4}
    /\ rg_call.msg = <<2, 4, 1>>
    /\ rg_coordinator = 4

\* C29: after start_election(starter_id) has returned, in BullySystem and in
\* RingElectionSystem, coordinator is the id of an alive node, also when the
\* starter's node has failed.
C29_CoordinatorIsAlive ==
    /\ bs_call.op = "start_election" => bs_alive[coordinator]
    /\ rg_call.op = "start_election" /\ rg_call.returned => rg_alive[rg_coordinator]

NdInit ==
    /\ prog = "nodes"
    /\ Q1Fresh(0) /\ BkFresh /\ DlFresh /\ BsFresh /\ NdFresh /\ RgFresh /\ RnFresh /\ VcFresh /\ KvFresh /\ RsFresh /\ LkFresh

SpecNodes == NdInit /\ [][NdNext]_vars

NdAliveNodes == {n \in Nodes : nd_alive[n]}

NdAliveCoordinators == {n \in Nodes : nd_alive[n] /\ is_coordinator[n]}

\* No start_election call is running.
NdQuiescent == nd_threads = EmptyBag

\* C4: once an election started on an alive node has run to quiescence, with
\* no crash or recover since it was started, exactly one alive node has
\* is_coordinator = True and it is the highest-id alive node.
C4_ElectionSettlesOnHighest ==
    nd_settling /\ NdQuiescent /\ NdAliveNodes # {}
       => NdAliveCoordinators = {SetMax(NdAliveNodes)}

\* C16: a crashed node becomes alive again only through recover(), and right
\* after recover() returns the node is alive with is_coordinator = False.
C16_RecoverAsFollower ==
    [][\A n \in Nodes :
          /\ ~nd_alive[n] /\ nd_alive'[n] => NdRecover(n)
          /\ ~nd_alive[n] /\ NdRecover(n) => nd_alive'[n] /\ ~is_coordinator'[n]]_vars

\* C20: when an alive node becomes coordinator and announces itself, every
\* alive node of lower id that was coordinator has stepped down: after the
\* announcement its is_coordinator is False.
C20_AnnouncedCoordinatorStepsDown ==
    [][\A h \in Nodes :
          nd_alive[h] /\ ~is_coordinator[h] /\ is_coordinator'[h] =>
             \A n \in Nodes : n < h /\ nd_alive[n] => ~is_coordinator'[n]]_vars

RnInit ==
    /\ prog = "ringnodes"
    /\ Q1Fresh(0) /\ BkFresh /\ DlFresh /\ BsFresh /\ NdFresh /\ RgFresh /\ RnFresh /\ VcFresh /\ KvFresh /\ RsFresh
    /\ LkFresh

SpecRingNodes == RnInit /\ [][RnNext]_vars

RnAliveNodes == {n \in RingNodes : rn_alive[n]}

RnAliveCoordinators == {n \in RingNodes : rn_alive[n] /\ rn_coordinator[n]}

\* The election has ended: no _receive_message thread is running.
RnEnded == rn_threads = EmptyBag

\* C30 as claimed: an election started by an alive RingNode, with no crash
\* during it, ends with the highest-id alive node as the only alive node
\* whose is_coordinator is True.
C30_RingSettlesOnHighest_Claimed ==
    rn_settling /\ RnEnded => RnAliveCoordinators = {SetMax(RnAliveNodes)}

\* C30, amended: an election started by an alive RingNode while no other
\* election is running, with no crash, no recover and no other election
\* started during it, ends with the highest-id alive node as the only alive
\* node whose is_coordinator is True.
C30_RingSettlesOnHighest ==
    rn_quiet /\ RnEnded => RnAliveCoordinators = {SetMax(RnAliveNodes)}

\* C30 witness: with nodes 2 and 4 crashed, an election started alone has
\* ended and node 3 is the coordinator.
C30_Witness ==
    /\ rn_quiet /\ RnEnded
    /\ RnAliveNodes = {0, 1, 3}
    /\ rn_calls = 3
    /\ RnAliveCoordinators = {3}

\* A step in which an election message leaves the ring: a _receive_message
\* thread ends and starts no other.
MessageLeaves == BagCardinality(rn_threads') < BagCardinality(rn_threads)

\* C31: with at least one RingNode alive, the message of an election leaves
\* the ring only when it was recognised as returned and the coordinator was
\* announced to the last node; crash() calls during the election never make
\* it disappear before that.
C31_ElectionCompletes ==
    [][MessageLeaves /\ RnAliveNodes # {} => \E t \in RnRunning : RnAnnounce(t)]_vars

(***************************************************************************)
(* Properties of the vector clocks                                         *)
(***************************************************************************)

VcInit ==
    /\ prog = "vector"
    /\ Q1Fresh(0) /\ BkFresh /\ DlFresh /\ BsFresh /\ NdFresh /\ RgFresh /\ RnFresh /\ VcFresh /\ KvFresh /\ RsFresh
    /\ LkFresh

SpecVector == VcInit /\ [][VcNext]_vars

\* C34: a receive leaves in every entry the greater of the local and the
\* message value, plus one in the receiver's own entry, so the message's
\* timestamp is causally before (__lt__) the receiver's vector after the
\* receive; and no entry of any process's vector decreases in any step.
C34_VectorClockRules ==
    [][/\ \A p, i \in VcProcesses : vc'[p][i] >= vc[p][i]
       /\ \A msg \in vc_msgs : VcReceiveMessage(msg) =>
             /\ \A i \in VcProcesses :
                   vc'[msg.to][i] = (IF vc[msg.to][i] >= msg.vc[i] THEN vc[msg.to][i] ELSE msg.vc[i])
                                    + (IF i = msg.to THEN 1 ELSE 0)
             /\ VcLess(msg.vc, vc'[msg.to])
      ]_vars

\* C34 witness: processes 0 and 1 have each sent the other a message and
\* received the other's; process 1 received last.
C34_Witness ==
    /\ vc[0] = [i \in VcProcesses |-> IF i = 0 THEN 2 ELSE IF i = 1 THEN 1 ELSE 0]
    /\ vc[1] = [i \in VcProcesses |-> IF i = 2 THEN 0 ELSE 2]
    /\ vc_msgs = {} /\ vc_events = 4

(***************************************************************************)
(* Properties of the key-value stores                                      *)
(***************************************************************************)

KvInit ==
    /\ prog = "kv"
    /\ Q1Fresh(0) /\ BkFresh /\ DlFresh /\ BsFresh /\ NdFresh /\ RgFresh /\ RnFresh /\ VcFresh /\ KvFresh /\ RsFresh
    /\ LkFresh

SpecKv == KvInit /\ [][KvNext]_vars

\* A step that calls apply_update(key, value, version) on replica r.
AppliesUpdate(t) == KvPropagate(t) /\ t.i # t.rid

\* C35: apply_update applies the update only when version is strictly greater
\* than the replica's stored version for key: then data and version take the
\* new value and version and it returns True; otherwise it returns False and
\* leaves data and version as they are. No step lowers a key's version.
C35_ApplyOnlyNewer ==
    [][/\ \A r \in Replicas, k \in KvKeys : Get(kv_version'[r], k) >= Get(kv_version[r], k)
       /\ \A t \in KvRunning : AppliesUpdate(t) =>
             IF t.version > Get(kv_version[t.i], t.key)
             THEN /\ kv_ret'.ret
                  /\ kv_data'[t.i][t.key] = t.value
                  /\ kv_version'[t.i][t.key] = t.version
             ELSE /\ ~kv_ret'.ret
                  /\ kv_data'[t.i] = kv_data[t.i]
                  /\ kv_version'[t.i] = kv_version[t.i]
      ]_vars

\* C35 witness: replica 2 holds counter = 100 at version 1 and has just
\* ignored the update counter = 200 of the same version.
C35_Witness ==
    /\ kv_ret = [op |-> "apply_update", r |-> 2, key |-> "counter", value |-> 200,
                 version |-> 1, ret |-> FALSE]
    /\ kv_data[2] = [k \in {"counter"} |-> 100]
    /\ kv_version[2] = [k \in {"counter"} |-> 1]

RsInit ==
    /\ prog = "replication"
    /\ Q1Fresh(0) /\ BkFresh /\ DlFresh /\ BsFresh /\ NdFresh /\ RgFresh /\ RnFresh /\ VcFresh /\ KvFresh /\ RsFresh
    /\ LkFresh

SpecReplication == RsInit /\ [][RsNext]_vars

\* dict.get(key, None)
GetValue(d, key) == IF key \in DOMAIN d THEN d[key] ELSE "None"

\* C36: once every scheduled propagation has run, all replicas hold the same
\* value for every key, in the DistributedKVStore and in the
\* ReplicationSystem.
C36_ReplicasConverge ==
    /\ kv_threads = EmptyBag =>
          \A r1, r2 \in Replicas, k \in KvKeys :
             GetValue(kv_data[r1], k) = GetValue(kv_data[r2], k)
    /\ rs_timers = EmptyBag =>
          \A r1, r2 \in Replicas, k \in RsKeys :
             GetValue(rs_store[r1], k) = GetValue(rs_store[r2], k)

(***************************************************************************)
(* Properties of the clock under concurrent callers                        *)
(***************************************************************************)

LkInit ==
    /\ prog = "lock"
    /\ Q1Fresh(0) /\ BkFresh /\ DlFresh /\ BsFresh /\ NdFresh /\ RgFresh /\ RnFresh /\ VcFresh /\ KvFresh /\ RsFresh
    /\ \E kind \in {"server", "bank"} :
         \E op \in [LockThreads -> {"tick", "apply", "request", "transaction"}] :
           \E arg \in [LockThreads -> OrderKeys] :
             /\ \A t \in LockThreads :
                  /\ (op[t] \in {"request", "transaction"}) = (kind = "bank")
                  /\ op[t] # "apply" => arg[t] = 0
             /\ LkStart(kind, op, arg)

SpecLock == LkInit /\ [][LkNext]_vars

LkObserved(t) == lk_pc[t] \in {"observed", "done"}

LkAllDone == \A t \in LockThreads : lk_pc[t] = "done"

\* C10: the calls of several threads on one node's clock are atomic: any two
\* calls observe distinct clock values, and when all have returned the clock
\* has advanced by at least one per call (by exactly one per call when every
\* call is a tick or a request) and equals the largest value observed.
C10_AtomicTickAndMerge ==
    /\ \A t, u \in LockThreads :
          t # u /\ LkObserved(t) /\ LkObserved(u) => lk_ret[t] # lk_ret[u]
    /\ LkAllDone =>
          /\ lk_clock >= MaxLockThreads
          /\ lk_clock = SetMax({lk_ret[t] : t \in LockThreads})
          /\ (\A t \in LockThreads : lk_op[t] # "apply") => lk_clock = MaxLockThreads

\* C10 witness: ticks and a merge on the same Server have all returned.
C10_Witness ==
    /\ lk_kind = "server"
    /\ LkAllDone
    /\ \E t, u \in LockThreads : lk_op[t] = "tick" /\ lk_op[u] = "apply" /\ lk_arg[u] = 2
    /\ lk_clock > MaxLockThreads

\* C15: admitted transactions of one leader carry pairwise distinct order keys,
\* also under concurrent submission: the keys Server.tick() returns to
\* concurrent callers differ, and no timestamp occurs twice in a
\* BankingServer's transaction_log.
C15_DistinctOrderKeys ==
    /\ \A t, u \in LockThreads :
          /\ t # u
          /\ lk_op[t] = "tick" /\ lk_op[u] = "tick"
          /\ LkObserved(t) /\ LkObserved(u)
          => lk_ret[t] # lk_ret[u]
    /\ \A i, j \in DOMAIN lk_log : i # j => lk_log[i] # lk_log[j]

\* C15 witness: three concurrent transactions were all logged by one
\* BankingServer, and not in the order of their timestamps.
C15_Witness ==
    /\ lk_kind = "bank"
    /\ LkAllDone
    /\ Len(lk_log) = MaxLockThreads
    /\ \E i, j \in DOMAIN lk_log : i < j /\ lk_log[i] > lk_log[j]

\* The threads whose request is a transaction.
LkTransactions == {t \in LockThreads : lk_op[t] = "transaction"}

\* C23: concurrent transaction requests on one BankingServer leader lose no
\* update: when all handlers have finished, the balance is the sum of the
\* admitted amounts and transaction_log has one entry per transaction.
C23_NoLostUpdate ==
    lk_kind = "bank" /\ LkAllDone =>
       /\ lk_balance = LockAmount * Cardinality(LkTransactions)
       /\ Len(lk_log) = Cardinality(LkTransactions)

\* C24: the entries of a BankingServer's transaction_log appear in strictly
\* increasing timestamp order, also when concurrent threads handle the
\* requests.
C24_LogInTimestampOrder ==
    \A i, j \in DOMAIN lk_log : i < j => lk_log[i] < lk_log[j]

Init == Q1Init

Next == Q1Next

Spec == Init /\ [][Next]_vars
====
